---- MODULE Spec2Model ----
(***************************************************************************)
(* A model of the file-transfer commands of vex-v5-serial                  *)
(* (src/src/commands/file.rs): DownloadFile::execute and                   *)
(* UploadFile::execute, run against a device whose replies are chosen by   *)
(* the environment.  Every await of execute is one position (pc); every    *)
(* packet handed to send_packet and every outcome of recieve_packet is     *)
(* appended to log, in order.                                              *)
(***************************************************************************)
EXTENDS Integers, Sequences, FiniteSets, TLC

VARIABLES
    cmd,                \* the command struct execute runs on (DownloadFile / UploadFile)
    pc,                 \* position inside execute
    log,                \* packets sent and receive outcomes, in order
    transfer_response,  \* payload of the accepted InitFileTransfer reply
    max_chunk_size,     \* local max_chunk_size (u16)
    offset,             \* local offset (u32)
    chunks,             \* what the data.chunks(..) iterator has not yielded yet
    data,               \* DownloadFile: the output buffer
    progress,           \* arguments the progress callback was called with
    result,             \* what execute returned
    program             \* the UploadProgram that runs the command, if one does

vars == <<cmd, pc, log, transfer_response, max_chunk_size, offset, chunks,
          data, progress, result, program>>

---------------------------------------------------------------------------
(* Bounds of the model *)

\* longest data uploaded, largest file_size a download reply announces
MaxLen == 9
\* every window_size 0..MaxWindow is tried, plus the sizes around 4096
MaxWindow == 8
\* most ReadFile requests one download may send
MaxReads == 3
\* longest chunk the device returns in one ReadFile reply
MaxReply == 4
\* length of the cold image of an UploadProgram; the hot image and the INI
\* are longer by 1 and by 3
MaxProgLen == 2
\* slots 0..MaxSlot are tried in UploadProgram
MaxSlot == 1
\* most serial ports the operating system lists
MaxPorts == 4

---------------------------------------------------------------------------
(* Program constants *)

COLD_START == 58720256
HOT_START == 125829120
USER_PROGRAM_CHUNK_SIZE == 4096
U16 == 65536
ACK == 118
NACK_CRC == 210
NACK_GENERAL == 255

FileExitAtion == {"DoNothing", "RunProgram", "Halt", "ShowRunScreen"}

\* Option<T>: None is the empty sequence, Some(v) is <<v>>
None == <<>>
Some(v) == <<v>>

Min(a, b) == IF a < b THEN a ELSE b

---------------------------------------------------------------------------
(* CRC32 of the file bytes: polynomial 0x04C11DB7, initial value 0, no     *)
(* reflection, no final xor.  A 32-bit value is kept as the pair of its    *)
(* 16-bit halves <<hi, lo>>.                                               *)

Bit(x, k) == (x \div (2 ^ k)) % 2

XorBit(a, b, k) == ((Bit(a, k) + Bit(b, k)) % 2) * (2 ^ k)

Xor16(a, b) ==
    XorBit(a, b, 0) + (XorBit(a, b, 1) + (XorBit(a, b, 2) + (XorBit(a, b, 3)
    + (XorBit(a, b, 4) + (XorBit(a, b, 5) + (XorBit(a, b, 6) + (XorBit(a, b, 7)
    + (XorBit(a, b, 8) + (XorBit(a, b, 9) + (XorBit(a, b, 10) + (XorBit(a, b, 11)
    + (XorBit(a, b, 12) + (XorBit(a, b, 13) + (XorBit(a, b, 14)
    + XorBit(a, b, 15)))))))))))))))

CrcPolyHi == 1217
CrcPolyLo == 7607

\* one step of the bitwise division: shift left, subtract the polynomial
\* when a 1 was shifted out
CrcShift(c) ==
    LET top == c[1] \div 32768
        hi  == ((c[1] * 2) % U16) + (c[2] \div 32768)
        lo  == (c[2] * 2) % U16
    IN  IF top = 1 THEN <<Xor16(hi, CrcPolyHi), Xor16(lo, CrcPolyLo)>>
        ELSE <<hi, lo>>

\* the byte enters at the top of the register, then 8 steps
CrcByte(c, b) ==
    LET s[k \in 0..8] ==
            IF k = 0 THEN <<Xor16(c[1], b * 256), c[2]>> ELSE CrcShift(s[k - 1])
    IN  s[8]

\* the register after the bytes from position i on, starting from c; each
\* intermediate register is bound as a value before the next byte is taken
RECURSIVE CrcFrom(_, _, _)
CrcFrom(c, bytes, i) ==
    IF i > Len(bytes) THEN c
    ELSE CHOOSE r \in { CrcFrom(d, bytes, i + 1) :
                         d \in {CrcByte(c, bytes[i])} } : TRUE

VEX_CRC32(bytes) == CrcFrom(<<0, 0>>, bytes, 1)

---------------------------------------------------------------------------
(* Inputs *)

\* the file bytes: byte i of every file is i (1-based), so that a chunk
\* names its place in the file
FileBytes(n) == [i \in 1..n |-> i % 256]

WindowSizes == (0..MaxWindow) \cup {4095, 4096, 4097, 65535}

LinkedFiles == {None, Some([filename |-> "slot1_lib.bin", vendor |-> None])}

LoadAddrs == {COLD_START, HOT_START}

UploadCmds ==
    { [kind |-> "UploadFile", data |-> FileBytes(n), load_addr |-> a,
       linked_file |-> l, after_upload |-> x, size |-> 0,
       progress_callback |-> p, filename |-> "file.bin", filetype |-> "bin"] :
        n \in 0..MaxLen, a \in LoadAddrs, l \in LinkedFiles, x \in FileExitAtion,
        p \in BOOLEAN }

DownloadCmds ==
    { [kind |-> "DownloadFile", data |-> <<>>, load_addr |-> a,
       linked_file |-> None, after_upload |-> "DoNothing", size |-> n,
       progress_callback |-> p, filename |-> "file.bin", filetype |-> "bin"] :
        n \in {0, MaxLen}, a \in LoadAddrs, p \in BOOLEAN }

---------------------------------------------------------------------------
(* Packets handed to Device::send_packet *)

InitFileTransferPacket(operation, options, size, addr, crc, ext, name) ==
    [dir |-> "send", type |-> "InitFileTransfer", operation |-> operation,
     options |-> options, write_file_size |-> size, load_address |-> addr,
     write_file_crc |-> crc, file_extension |-> ext, file_name |-> name]

LinkFilePacket(vendor, option, required_file) ==
    [dir |-> "send", type |-> "LinkFile", vendor |-> vendor, option |-> option,
     required_file |-> required_file]

WriteFilePacket(address, chunk_data) ==
    [dir |-> "send", type |-> "WriteFile", address |-> address,
     chunk_data |-> chunk_data]

ReadFilePacket(address, size) ==
    [dir |-> "send", type |-> "ReadFile", address |-> address, size |-> size]

ExitFileTransferPacket(action) ==
    [dir |-> "send", type |-> "ExitFileTransfer", action |-> action]

---------------------------------------------------------------------------
(* What the device layer can answer.  send_packet either hands the packet  *)
(* to the pipe or fails; recieve_packet yields a decoded reply, whose      *)
(* first byte is the ACK code, or fails.                                   *)

SendOutcomes == {"Ok", "IoError"}

RecvErrors == {"Timeout", "DecodeError"}

Acks == {ACK, NACK_CRC, NACK_GENERAL}

\* a CRC that differs from c
OtherCrc(c) == <<c[1], (c[2] + 1) % U16>>

RecvError(type, e) ==
    [dir |-> "recv", type |-> type, res |-> e, ack |-> 0, payload |-> None]

Reply(type, ack, payload) ==
    [dir |-> "recv", type |-> type, res |-> "Reply", ack |-> ack,
     payload |-> payload]

\* the ACK bytes the device answers with inside an UploadProgram
ProgAcks == {ACK, NACK_GENERAL}

\* the window_size the device advertises inside an UploadProgram
ProgWindowSizes == {4}

\* an UploadProgram chains up to three sessions: there the device is taken
\* from smaller sets of answers
DeviceAcks == IF program = None THEN Acks ELSE ProgAcks

DeviceWindows == IF program = None THEN WindowSizes ELSE ProgWindowSizes

DeviceCrcs(crc) == IF program = None THEN {crc, OtherCrc(crc)} ELSE {crc}

\* a reply that is not a success carries no payload
ReplyOutcomes(type, payloads) ==
    { RecvError(type, e) : e \in RecvErrors }
        \cup { Reply(type, a, None) : a \in DeviceAcks \ {ACK} }
        \cup { Reply(type, ACK, Some(p)) : p \in payloads }

InitReplyPayloads(c) ==
    IF c.kind = "UploadFile"
    THEN { [window_size |-> w, file_size |-> Len(c.data), file_crc |-> k] :
             w \in DeviceWindows, k \in DeviceCrcs(VEX_CRC32(c.data)) }
    ELSE { [window_size |-> w, file_size |-> n, file_crc |-> <<0, 0>>] :
             w \in DeviceWindows, n \in 0..MaxLen }

\* the bytes of the device's file at positions from+1 .. from+n
DeviceBytes(from, n) == [i \in 1..n |-> (from + i) % 256]

ReadReplyPayloads(off, size) ==
    { DeviceBytes(off, n) : n \in 0..Min(size, MaxReply) }

---------------------------------------------------------------------------
(* Results of execute *)

Ok(v) == [ok |-> TRUE, value |-> v]
Err(e) == [ok |-> FALSE, err |-> e]
Nack(code) == [kind |-> "Nack", code |-> code]
Failure(kind) == [kind |-> kind, code |-> 0]

\* the ? on a recieve_packet(..).await
RecvFailed(o) == o.res # "Reply"

\* Cdc2 reply payload to Result: a reply whose ACK byte is not 0x76 is Nack(code)
TryIntoInner(o) == IF o.ack = ACK THEN Ok(o.payload[1]) ELSE Err(Nack(o.ack))

---------------------------------------------------------------------------
(* The decisions execute takes *)

HasLinkedFile_Never(c) == FALSE

\* file.rs 161: if let Some(linked_file) = &self.linked_file
HasLinkedFile(c) == c.linked_file # None

\* file.rs 164: linked_file.vendor.unwrap_or(FileVendor::User)
LinkVendor(l) == IF l.vendor = None THEN "User" ELSE l.vendor[1]

\* the reply is unwrapped without a look at its ACK byte
InitOutcome_AckIgnored(o) ==
    IF RecvFailed(o) THEN Err(Failure(o.res))
    ELSE Ok(IF o.payload = None
            THEN [window_size |-> 0, file_size |-> 0, file_crc |-> <<0, 0>>]
            ELSE o.payload[1])

\* file.rs 155-159, 64-67: the Init reply is awaited (?) and then unwrapped
\* with try_into_inner()?
InitOutcome(o) == IF RecvFailed(o) THEN Err(Failure(o.res)) ELSE TryIntoInner(o)

\* a receive that failed is taken for a reply
DroppedOutcome_Ignored(o) == Ok(<<>>)

\* file.rs 169-171, 203-205, 215-217: the reply is awaited (?) and dropped
DroppedOutcome(o) == IF RecvFailed(o) THEN Err(Failure(o.res)) ELSE Ok(<<>>)

\* file.rs 86-90: the ReadFile reply is awaited (?), then
\* payload.unwrap().map_err(DeviceError::Nack)?
ReadOutcome(o) == IF RecvFailed(o) THEN Err(Failure(o.res)) ELSE TryIntoInner(o)

\* file.rs 178-182: window_size + (4 - window_size % 4), before the u16 wraps
AlignUp(w) == w + (4 - (w % 4))

\* the chunk size without the alignment to 4 bytes
UploadMaxChunkSize_Unaligned(w) ==
    IF w > 0 /\ w <= USER_PROGRAM_CHUNK_SIZE THEN w ELSE USER_PROGRAM_CHUNK_SIZE

\* the chunk size without the upper limit on window_size
UploadMaxChunkSize_NoLimit(w) ==
    IF w > 0
    THEN IF w % 4 # 0 THEN AlignUp(w) % U16 ELSE w
    ELSE USER_PROGRAM_CHUNK_SIZE

\* the window_size is not looked at
UploadMaxChunkSize_Fixed(w) == USER_PROGRAM_CHUNK_SIZE

\* file.rs 174-185
UploadMaxChunkSize(w) ==
    IF w > 0 /\ w <= USER_PROGRAM_CHUNK_SIZE
    THEN IF w % 4 # 0 THEN AlignUp(w) % U16 ELSE w
    ELSE USER_PROGRAM_CHUNK_SIZE

\* the download chunk size without the upper limit on window_size
DownloadMaxChunkSize_NoLimit(w) == IF w > 0 THEN w ELSE USER_PROGRAM_CHUNK_SIZE

\* file.rs 69-75
DownloadMaxChunkSize(w) ==
    IF w > 0 /\ w <= USER_PROGRAM_CHUNK_SIZE THEN w ELSE USER_PROGRAM_CHUNK_SIZE

\* file.rs 192: what self.data.chunks(n) yields next from the rest of the data
NextChunk(rest, n) == SubSeq(rest, 1, Min(n, Len(rest)))

\* file.rs 192: what is left for the following iterations
AfterChunk(rest, n) == SubSeq(rest, Min(n, Len(rest)) + 1, Len(rest))

\* every chunk goes to the load address
ChunkAddress_NoOffset(load_addr, off) == load_addr

\* file.rs 199, 82: self.load_addr + offset
ChunkAddress(load_addr, off) == load_addr + off

\* the progress is computed after the chunk was counted
ProgressOffset_Sent(off, chunk) == off + Len(chunk)

\* file.rs 193, 206: progress is computed from offset before the chunk is
\* sent; offset += chunk.len() comes after the reply
ProgressOffset(off, chunk) == off

\* file.rs 193: (offset as f32 / self.data.len() as f32) * 100.0, kept as the
\* fraction <<offset, len>>
UploadProgress(off, len) == <<off, len>>

\* file.rs 209: callback(100.0)
Done == <<100, 100>>

\* file.rs 213: the exit action of an upload
UploadExitAction(c) == c.after_upload

\* the loop goes on when exactly file_size bytes were received
IsLast_Strict(file_size, off) == file_size < off

\* file.rs 92: let last = transfer_response.file_size <= offset
IsLast(file_size, off) == file_size <= off

---------------------------------------------------------------------------
(* The state after the command was constructed *)

Init ==
    /\ cmd \in UploadCmds \cup DownloadCmds
    /\ pc = "start"
    /\ log = <<>>
    /\ transfer_response = None
    /\ max_chunk_size = 0
    /\ offset = 0
    /\ chunks = <<>>
    /\ data = <<>>
    /\ progress = <<>>
    /\ result = None
    /\ program = None

Return(r) == pc' = "returned" /\ result' = Some(r)

\* device.send_packet(pkt).await? after the events of l: on success execute
\* goes on at next
SendPacketFrom(l, pkt, next) ==
    \E s \in SendOutcomes :
        IF s = "Ok"
        THEN log' = Append(l, pkt) /\ pc' = next /\ UNCHANGED result
        ELSE Return(Err(Failure(s))) /\ log' = l

SendPacket(pkt, next) == SendPacketFrom(log, pkt, next)

\* a call of the progress callback, as an event of the log
ProgressCall(v) == [dir |-> "call", type |-> "progress", value |-> v]

\* file.rs 194-196, 208-210, 95-97: if let Some(callback) = .. { callback(v) }
\* e is what the call leaves in the history l
CallProgress(c, l, e) == IF c.progress_callback THEN Append(l, e) ELSE l

NumSent(type) ==
    Cardinality({ i \in 1..Len(log) : log[i].dir = "send" /\ log[i].type = type })

---------------------------------------------------------------------------
(* UploadFile::execute *)

\* file.rs 130-154
UploadSendInit ==
    /\ pc = "start"
    /\ UNCHANGED program
    /\ cmd.kind = "UploadFile"
    /\ SendPacket(InitFileTransferPacket("Write", "Overwrite", Len(cmd.data),
                                         cmd.load_addr, VEX_CRC32(cmd.data),
                                         cmd.filetype, cmd.filename),
                  "init_wait")
    /\ UNCHANGED <<cmd, transfer_response, max_chunk_size, offset, chunks,
                   data, progress>>

\* file.rs 155-159
UploadRecvInit ==
    /\ pc = "init_wait"
    /\ UNCHANGED program
    /\ cmd.kind = "UploadFile"
    /\ \E o \in ReplyOutcomes("InitFileTransferReply", InitReplyPayloads(cmd)) :
          /\ log' = Append(log, o)
          /\ IF InitOutcome(o).ok
             THEN /\ transfer_response' = Some(InitOutcome(o).value)
                  /\ pc' = IF HasLinkedFile(cmd) THEN "link" ELSE "size"
                  /\ UNCHANGED result
             ELSE /\ Return(InitOutcome(o))
                  /\ UNCHANGED transfer_response
    /\ UNCHANGED <<cmd, max_chunk_size, offset, chunks, data, progress>>

\* file.rs 161-168
UploadSendLink ==
    /\ pc = "link"
    /\ UNCHANGED program
    /\ SendPacket(LinkFilePacket(LinkVendor(cmd.linked_file[1]), 0,
                                 cmd.linked_file[1].filename),
                  "link_wait")
    /\ UNCHANGED <<cmd, transfer_response, max_chunk_size, offset, chunks,
                   data, progress>>

\* file.rs 169-171
UploadRecvLink ==
    /\ pc = "link_wait"
    /\ UNCHANGED program
    /\ \E o \in ReplyOutcomes("LinkFileReply", {<<>>}) :
          /\ log' = Append(log, o)
          /\ IF DroppedOutcome(o).ok
             THEN pc' = "size" /\ UNCHANGED result
             ELSE Return(DroppedOutcome(o))
    /\ UNCHANGED <<cmd, transfer_response, max_chunk_size, offset, chunks,
                   data, progress>>

\* file.rs 174-192: max_chunk_size, offset = 0, the chunks iterator
UploadChunkSize ==
    /\ pc = "size"
    /\ UNCHANGED program
    /\ cmd.kind = "UploadFile"
    /\ max_chunk_size' = UploadMaxChunkSize(transfer_response[1].window_size)
    /\ offset' = 0
    /\ chunks' = cmd.data
    /\ pc' = "loop"
    /\ UNCHANGED <<cmd, log, transfer_response, data, progress, result>>

\* file.rs 192-202: the next chunk, the progress callback, send WriteFile
UploadSendWrite ==
    /\ pc = "loop"
    /\ UNCHANGED program
    /\ cmd.kind = "UploadFile"
    /\ chunks # <<>>
    /\ LET v == UploadProgress(ProgressOffset(offset,
                                              NextChunk(chunks, max_chunk_size)),
                               Len(cmd.data))
       IN  /\ progress' = CallProgress(cmd, progress, v)
           /\ SendPacketFrom(CallProgress(cmd, log, ProgressCall(v)),
                             WriteFilePacket(ChunkAddress(cmd.load_addr, offset),
                                             NextChunk(chunks, max_chunk_size)),
                             "write_wait")
    /\ UNCHANGED <<cmd, transfer_response, max_chunk_size, offset, chunks, data>>

\* file.rs 203-206
UploadRecvWrite ==
    /\ pc = "write_wait"
    /\ UNCHANGED program
    /\ \E o \in ReplyOutcomes("WriteFileReply", {<<>>}) :
          /\ log' = Append(log, o)
          /\ IF DroppedOutcome(o).ok
             THEN /\ offset' = offset + Len(NextChunk(chunks, max_chunk_size))
                  /\ chunks' = AfterChunk(chunks, max_chunk_size)
                  /\ pc' = "loop"
                  /\ UNCHANGED result
             ELSE /\ Return(DroppedOutcome(o))
                  /\ UNCHANGED <<offset, chunks>>
    /\ UNCHANGED <<cmd, transfer_response, max_chunk_size, data, progress>>

\* file.rs 208-214: the loop is over, callback(100.0), send ExitFileTransfer
UploadSendExit ==
    /\ pc = "loop"
    /\ UNCHANGED program
    /\ cmd.kind = "UploadFile"
    /\ chunks = <<>>
    /\ progress' = CallProgress(cmd, progress, Done)
    /\ SendPacketFrom(CallProgress(cmd, log, ProgressCall(Done)),
                      ExitFileTransferPacket(UploadExitAction(cmd)), "exit_wait")
    /\ UNCHANGED <<cmd, transfer_response, max_chunk_size, offset, chunks, data>>

\* file.rs 215-219
UploadRecvExit ==
    /\ pc = "exit_wait"
    /\ UNCHANGED program
    /\ \E o \in ReplyOutcomes("ExitFileTransferReply", {<<>>}) :
          /\ log' = Append(log, o)
          /\ IF DroppedOutcome(o).ok
             THEN Return(Ok(<<>>))
             ELSE Return(DroppedOutcome(o))
    /\ UNCHANGED <<cmd, transfer_response, max_chunk_size, offset, chunks,
                   data, progress>>

---------------------------------------------------------------------------
(* DownloadFile::execute *)

\* file.rs 42-63
DownloadSendInit ==
    /\ pc = "start"
    /\ UNCHANGED program
    /\ cmd.kind = "DownloadFile"
    /\ SendPacket(InitFileTransferPacket("Read", "None", cmd.size,
                                         cmd.load_addr, <<0, 0>>,
                                         cmd.filetype, cmd.filename),
                  "init_wait")
    /\ UNCHANGED <<cmd, transfer_response, max_chunk_size, offset, chunks,
                   data, progress>>

\* file.rs 64-67
DownloadRecvInit ==
    /\ pc = "init_wait"
    /\ UNCHANGED program
    /\ cmd.kind = "DownloadFile"
    /\ \E o \in ReplyOutcomes("InitFileTransferReply", InitReplyPayloads(cmd)) :
          /\ log' = Append(log, o)
          /\ IF InitOutcome(o).ok
             THEN /\ transfer_response' = Some(InitOutcome(o).value)
                  /\ pc' = "size"
                  /\ UNCHANGED result
             ELSE /\ Return(InitOutcome(o))
                  /\ UNCHANGED transfer_response
    /\ UNCHANGED <<cmd, max_chunk_size, offset, chunks, data, progress>>

\* file.rs 69-78: max_chunk_size, data = Vec::with_capacity(..), offset = 0
DownloadChunkSize ==
    /\ pc = "size"
    /\ UNCHANGED program
    /\ cmd.kind = "DownloadFile"
    /\ max_chunk_size' = DownloadMaxChunkSize(transfer_response[1].window_size)
    /\ data' = <<>>
    /\ offset' = 0
    /\ pc' = "loop"
    /\ UNCHANGED <<cmd, log, transfer_response, chunks, progress, result>>

\* file.rs 80-85
DownloadSendRead ==
    /\ pc = "loop"
    /\ UNCHANGED program
    /\ cmd.kind = "DownloadFile"
    /\ NumSent("ReadFile") < MaxReads
    /\ SendPacket(ReadFilePacket(ChunkAddress(cmd.load_addr, offset),
                                 max_chunk_size),
                  "read_wait")
    /\ UNCHANGED <<cmd, transfer_response, max_chunk_size, offset, chunks,
                   data, progress>>

\* file.rs 86-103
DownloadRecvRead ==
    /\ pc = "read_wait"
    /\ UNCHANGED program
    /\ \E o \in ReplyOutcomes("ReadFileReply",
                              ReadReplyPayloads(offset, max_chunk_size)) :
          /\ IF ReadOutcome(o).ok
             THEN LET chunk_data == ReadOutcome(o).value
                      off == offset + Len(chunk_data)
                      v == <<off, transfer_response[1].file_size>>
                  IN  /\ offset' = off
                      /\ data' = data \o chunk_data
                      /\ progress' = CallProgress(cmd, progress, v)
                      /\ log' = CallProgress(cmd, Append(log, o), ProgressCall(v))
                      /\ IF IsLast(transfer_response[1].file_size, off)
                         THEN Return(Ok(data \o chunk_data))
                         ELSE pc' = "loop" /\ UNCHANGED result
             ELSE /\ Return(ReadOutcome(o))
                  /\ log' = Append(log, o)
                  /\ UNCHANGED <<offset, data, progress>>
    /\ UNCHANGED <<cmd, transfer_response, max_chunk_size, chunks>>

---------------------------------------------------------------------------

Next ==
    \/ UploadSendInit
    \/ UploadRecvInit
    \/ UploadSendLink
    \/ UploadRecvLink
    \/ UploadChunkSize
    \/ UploadSendWrite
    \/ UploadRecvWrite
    \/ UploadSendExit
    \/ UploadRecvExit
    \/ DownloadSendInit
    \/ DownloadRecvInit
    \/ DownloadChunkSize
    \/ DownloadSendRead
    \/ DownloadRecvRead

Spec == Init /\ [][Next]_vars

---------------------------------------------------------------------------
(* The chunk size for every window_size a u16 can hold: the states right   *)
(* after an InitFileTransfer reply advertising the window was accepted,    *)
(* and the step that computes max_chunk_size from it.                      *)

\* the CRC the host puts into the Init packet (0 on a download)
HostCrc(c) == IF c.kind = "UploadFile" THEN VEX_CRC32(c.data) ELSE <<0, 0>>

WinCmds ==
    { c \in UploadCmds \cup DownloadCmds :
        /\ c.load_addr = COLD_START
        /\ c.linked_file = None
        /\ c.after_upload = "DoNothing"
        /\ c.progress_callback
        /\ Len(c.data) + c.size = MaxLen }

WinInitPacket(c, crc) ==
    IF c.kind = "UploadFile"
    THEN InitFileTransferPacket("Write", "Overwrite", Len(c.data), c.load_addr,
                                crc, c.filetype, c.filename)
    ELSE InitFileTransferPacket("Read", "None", c.size, c.load_addr, crc,
                                c.filetype, c.filename)

InitWin ==
    /\ cmd \in WinCmds
    /\ \E crc \in {HostCrc(cmd)} : \E w \in 0..(U16 - 1) :
          LET payload == [window_size |-> w, file_size |-> MaxLen, file_crc |-> crc]
          IN  /\ transfer_response = Some(payload)
              /\ log = << WinInitPacket(cmd, crc),
                          Reply("InitFileTransferReply", ACK, Some(payload)) >>
    /\ pc = "size"
    /\ max_chunk_size = 0
    /\ offset = 0
    /\ chunks = <<>>
    /\ data = <<>>
    /\ progress = <<>>
    /\ result = None
    /\ program = None

\* the chunk size is computed, and a download sends its first ReadFile
NextWin ==
    \/ UploadChunkSize
    \/ DownloadChunkSize
    \/ DownloadSendRead

SpecWin == InitWin /\ [][NextWin]_vars

---------------------------------------------------------------------------
(* UploadProgram::execute: the INI file, then the cold and the hot image,  *)
(* each one UploadFile run by device.execute_command                       *)

ProgramKinds == {"Cold", "Hot", "Both"}

\* file.rs 223-227: the image that is not there is the empty sequence
ProgramData(kind) ==
    [kind |-> kind,
     cold |-> IF kind = "Hot" THEN <<>> ELSE FileBytes(MaxProgLen),
     hot  |-> IF kind = "Cold" THEN <<>> ELSE FileBytes(MaxProgLen + 1)]

\* file.rs 250-259; step is the position inside execute, result what it
\* returned
UploadPrograms ==
    { [slot |-> n, data |-> ProgramData(k), after_upload |-> x,
       step |-> "start", result |-> None] :
        n \in 0..MaxSlot, k \in ProgramKinds, x \in FileExitAtion }

\* file.rs 295-299: (cold, hot) of the match on self.data
HasCold(d) == d.kind \in {"Cold", "Both"}
HasHot(d) == d.kind \in {"Hot", "Both"}

\* file.rs 264: format!("slot{}", self.slot)
BaseFileName(slot) == "slot" \o ToString(slot)

\* file.rs 266-278: serde_ini::to_vec of the ProgramIniConfig; the bytes
\* stand for the key-value text, the first one for the slot it names
IniBytes(p) == <<p.slot>> \o FileBytes(MaxProgLen + 2)

\* file.rs 288
IniAfterUpload == "Halt"

\* file.rs 280-292
IniUpload(p) ==
    [kind |-> "UploadFile", data |-> IniBytes(p), load_addr |-> COLD_START,
     linked_file |-> None, after_upload |-> IniAfterUpload, size |-> 0,
     progress_callback |-> TRUE,
     filename |-> BaseFileName(p.slot) \o ".ini", filetype |-> "ini"]

\* file.rs 302-306
ColdAfterUpload(p) == IF HasHot(p.data) THEN "Halt" ELSE p.after_upload

\* file.rs 309-321
ColdUpload(p) ==
    [kind |-> "UploadFile", data |-> p.data.cold, load_addr |-> COLD_START,
     linked_file |-> None, after_upload |-> ColdAfterUpload(p), size |-> 0,
     progress_callback |-> TRUE,
     filename |-> BaseFileName(p.slot) \o ".bin", filetype |-> "bin"]

\* file.rs 326-343
HotUpload(p) ==
    [kind |-> "UploadFile", data |-> p.data.hot, load_addr |-> HOT_START,
     linked_file |-> Some([filename |-> BaseFileName(p.slot) \o "_lib.bin",
                           vendor |-> None]),
     after_upload |-> p.after_upload, size |-> 0,
     progress_callback |-> TRUE,
     filename |-> BaseFileName(p.slot) \o ".bin", filetype |-> "bin"]

\* file.rs 301, 325: what follows the INI
StepAfterIni(d) == IF HasCold(d) THEN "cold" ELSE IF HasHot(d) THEN "hot" ELSE "return"

\* nothing follows the cold image
StepAfterCold_Return(d) == "return"

\* file.rs 325: what follows the cold image
StepAfterCold(d) == IF HasHot(d) THEN "hot" ELSE "return"

\* file.rs 293: device.execute_command(file_transfer).await.unwrap() panics
\* on Err, execute returns nothing
IniFailure(r) == [step |-> "panicked", result |-> None]

\* file.rs 322, 344: execute_command(..).await? returns the Err
UploadFailure(r) == [step |-> "returned", result |-> Some(r)]

\* device.execute_command(c) was called: an event of the log
ExecuteCommand(c) == [dir |-> "exec", type |-> c.kind, command |-> c]

\* device.execute_command(c): c.execute(device) starts
StartSession(c) ==
    /\ cmd' = c
    /\ pc' = "start"
    /\ log' = Append(log, ExecuteCommand(c))
    /\ transfer_response' = None
    /\ max_chunk_size' = 0
    /\ offset' = 0
    /\ chunks' = <<>>
    /\ data' = <<>>
    /\ progress' = <<>>
    /\ result' = None

\* execute is over: nothing but program changes
ProgramEnds(p, end) ==
    /\ program' = Some([p EXCEPT !.step = end.step, !.result = end.result])
    /\ UNCHANGED <<cmd, pc, log, transfer_response, max_chunk_size, offset,
                   chunks, data, progress, result>>

\* the next upload is started, or Ok(()) is returned (file.rs 347)
Continue(p, next) ==
    IF next = "return"
    THEN ProgramEnds(p, [step |-> "returned", result |-> Some(Ok(<<>>))])
    ELSE /\ StartSession(IF next = "cold" THEN ColdUpload(p) ELSE HotUpload(p))
         /\ program' = Some([p EXCEPT !.step = next])

\* file.rs 264-293: up to the call that uploads the INI
UploadProgramIni ==
    /\ program # None
    /\ program[1].step = "start"
    /\ StartSession(IniUpload(program[1]))
    /\ program' = Some([program[1] EXCEPT !.step = "ini"])

\* file.rs 293-347: the INI upload returned
UploadProgramAfterIni ==
    /\ program # None
    /\ program[1].step = "ini"
    /\ pc = "returned"
    /\ IF result[1].ok
       THEN Continue(program[1], StepAfterIni(program[1].data))
       ELSE ProgramEnds(program[1], IniFailure(result[1]))

\* file.rs 322-347: the upload of the cold image returned
UploadProgramAfterCold ==
    /\ program # None
    /\ program[1].step = "cold"
    /\ pc = "returned"
    /\ IF result[1].ok
       THEN Continue(program[1], StepAfterCold(program[1].data))
       ELSE ProgramEnds(program[1], UploadFailure(result[1]))

\* file.rs 344-347: the upload of the hot image returned
UploadProgramAfterHot ==
    /\ program # None
    /\ program[1].step = "hot"
    /\ pc = "returned"
    /\ IF result[1].ok
       THEN Continue(program[1], "return")
       ELSE ProgramEnds(program[1], UploadFailure(result[1]))

InitProg ==
    /\ program \in { Some(p) : p \in UploadPrograms }
    /\ cmd = IniUpload(program[1])
    /\ pc = "idle"
    /\ log = <<>>
    /\ transfer_response = None
    /\ max_chunk_size = 0
    /\ offset = 0
    /\ chunks = <<>>
    /\ data = <<>>
    /\ progress = <<>>
    /\ result = None

NextProg ==
    \/ UploadProgramIni
    \/ UploadProgramAfterIni
    \/ UploadProgramAfterCold
    \/ UploadProgramAfterHot
    \/ UploadSendInit
    \/ UploadRecvInit
    \/ UploadSendLink
    \/ UploadRecvLink
    \/ UploadChunkSize
    \/ UploadSendWrite
    \/ UploadRecvWrite
    \/ UploadSendExit
    \/ UploadRecvExit

SpecProg == InitProg /\ [][NextProg]_vars

---------------------------------------------------------------------------
(* VexDevice::with_channel: switch_channel(Some(channel)), the work f,     *)
(* switch_channel(None)                                                    *)

\* meta.rs 33-34, 42-43: the product type bytes
V5_BRAIN == 16
V5_CONTROLLER == 17

\* meta.rs 6-13: V5ControllerChannel as u8
ChannelByte(channel) == IF channel = "PIT" THEN 0 ELSE 1

\* bytes 5 and 6 of the GetSystemVersion reply of the peer: a brain, a
\* controller on the cable, a wireless controller, something else
Peers == {<<V5_BRAIN, 0>>, <<V5_CONTROLLER, 1>>, <<V5_CONTROLLER, 2>>,
          <<V5_CONTROLLER + 1, 0>>}

\* what f returns
WorkResults == {"Ok", "Err"}

\* a call with_channel(channel, f) and the peer it talks to
WithChannelCalls ==
    { [kind |-> "with_channel", channel |-> ch, peer |-> p] :
        ch \in {"PIT", "UPLOAD"}, p \in Peers }

\* meta.rs 59-61: the flags bits a controller knows
ControllerFlags(bits) == IF bits \in 0..3 THEN bits ELSE 0

\* meta.rs 38-48: TryFrom<(u8, u8)> for VexProductType
VexProductTryFrom(value) ==
    IF value[1] = V5_BRAIN THEN Ok(<<"V5Brain", 0>>)
    ELSE IF value[1] = V5_CONTROLLER
         THEN Ok(<<"V5Controller", ControllerFlags(value[2])>>)
         ELSE Err(Failure("InvalidDevice"))

\* every product is taken for a controller
IsController_Always(product) == TRUE

\* vexdevice.rs 78: if let VexProduct::V5Controller(_) = info.product_type
IsController(product) == product[1] = "V5Controller"

\* vexdevice.rs 80: channel.unwrap_or(V5ControllerChannel::PIT)
SwitchTarget(channel) == IF channel = None THEN "PIT" ELSE channel[1]

\* the channel argument of the two switch_channel calls (vexdevice.rs 97, 99)
ChannelArg(c, phase) == IF phase = "pre" THEN Some(c.channel) ELSE None

GetSystemVersionPacket == [dir |-> "send", type |-> "GetSystemVersion"]

SwitchChannelPacket(channel) ==
    [dir |-> "send", type |-> "SwitchChannel", channel |-> ChannelByte(channel)]

\* the call f(self) and what it returned, as an event of the log
WorkCall(r) == [dir |-> "call", type |-> "work", value |-> r]

\* the simple reply to GetSystemVersion carries no ACK byte
VersionOutcomes(c) ==
    { RecvError("GetSystemVersionReply", e) : e \in RecvErrors }
        \cup { Reply("GetSystemVersionReply", 0, Some(c.peer)) }

\* receive_extended(VexExtPacketChecks::ALL): a reply that is not ACK is an
\* error of the receive
SwitchOutcome(o) ==
    IF RecvFailed(o) THEN Err(Failure(o.res))
    ELSE IF o.ack = ACK THEN Ok(<<>>) ELSE Err(Nack(o.ack))

\* vexdevice.rs 57-72: get_device_version, from the reply on
VersionOutcome(o) ==
    IF RecvFailed(o) THEN Err(Failure(o.res))
    ELSE VexProductTryFrom(o.payload[1])

Phases == {"pre", "post"}

\* switch_channel returned Ok(()): f is called after the first, with_channel
\* returns Ok(()) after the second (vexdevice.rs 97-100)
SwitchDone(phase) ==
    IF phase = "pre"
    THEN pc' = "work" /\ UNCHANGED result
    ELSE Return(Ok(<<>>))

ChanUnchanged ==
    UNCHANGED <<cmd, transfer_response, max_chunk_size, offset, chunks, data,
                progress, program>>

\* vexdevice.rs 62: protocol.send_simple(GetSystemVersion, ..)?
SwitchSendVersion ==
    \E phase \in Phases :
        /\ pc = phase \o "_version"
        /\ SendPacket(GetSystemVersionPacket, phase \o "_version_wait")
        /\ ChanUnchanged

\* vexdevice.rs 64-90: receive_simple()?, the product type, and the branch
\* of switch_channel on it
SwitchRecvVersion ==
    \E phase \in Phases :
        /\ pc = phase \o "_version_wait"
        /\ \E o \in VersionOutcomes(cmd) :
              /\ log' = Append(log, o)
              /\ IF ~VersionOutcome(o).ok THEN Return(VersionOutcome(o))
                 ELSE IF IsController(VersionOutcome(o).value)
                      THEN pc' = phase \o "_switch" /\ UNCHANGED result
                      ELSE SwitchDone(phase)
        /\ ChanUnchanged

\* vexdevice.rs 80-83: send_extended(SwitchChannel, [channel as u8])?
SwitchSendChannel ==
    \E phase \in Phases :
        /\ pc = phase \o "_switch"
        /\ SendPacket(SwitchChannelPacket(SwitchTarget(ChannelArg(cmd, phase))),
                      phase \o "_switch_wait")
        /\ ChanUnchanged

\* vexdevice.rs 85-88: receive_extended(ALL)?, the response is discarded
SwitchRecvChannel ==
    \E phase \in Phases :
        /\ pc = phase \o "_switch_wait"
        /\ \E o \in ReplyOutcomes("SwitchChannelReply", {<<>>}) :
              /\ log' = Append(log, o)
              /\ IF SwitchOutcome(o).ok
                 THEN SwitchDone(phase)
                 ELSE Return(SwitchOutcome(o))
        /\ ChanUnchanged

\* vexdevice.rs 98: f(self)?
WithChannelWork ==
    /\ pc = "work"
    /\ \E r \in WorkResults :
          /\ log' = Append(log, WorkCall(r))
          /\ IF r = "Ok"
             THEN pc' = "post_version" /\ UNCHANGED result
             ELSE Return(Err(Failure("WorkError")))
    /\ ChanUnchanged

InitChan ==
    /\ cmd \in WithChannelCalls
    /\ pc = "pre_version"
    /\ log = <<>>
    /\ transfer_response = None
    /\ max_chunk_size = 0
    /\ offset = 0
    /\ chunks = <<>>
    /\ data = <<>>
    /\ progress = <<>>
    /\ result = None
    /\ program = None

NextChan ==
    \/ SwitchSendVersion
    \/ SwitchRecvVersion
    \/ SwitchSendChannel
    \/ SwitchRecvChannel
    \/ WithChannelWork

SpecChan == InitChan /\ [][NextChan]_vars

---------------------------------------------------------------------------
(* find_generic_devices: the ports find_generic_ports keeps of those the   *)
(* operating system lists, and the loop that makes devices of them         *)

\* what find_generic_ports tells apart in a listed port: not a VEX USB port,
\* the controller's product id, the brain's product id with a product name
\* that contains "User", that contains "Communications" (and not "User"),
\* that contains neither, or with no product name
ListedPorts ==
    {"Other", "Controller", "BrainUser", "BrainCommunications", "BrainPlain",
     "BrainUnnamed"}

\* the port lists tokio_serial::available_ports() may return
RECURSIVE PortLists(_)
PortLists(n) ==
    IF n = 0 THEN {<<>>}
    ELSE PortLists(n - 1)
            \cup { Append(l, k) : l \in { m \in PortLists(n - 1) : Len(m) = n - 1 },
                                  k \in ListedPorts }

\* mod.rs 26-37, 50-53: the ports that are skipped
IsSkipped(listed) == listed \in {"Other", "BrainUnnamed"}

\* mod.rs 38-72: the port type given to a listed port that is kept, after
\* the ports kept so far
PortTypeOf(listed, vex_ports) ==
    IF listed = "Controller" THEN "Controller"
    ELSE IF listed = "BrainUser" THEN "User"
    ELSE IF listed = "BrainCommunications" THEN "System"
    ELSE IF vex_ports # <<>> /\ vex_ports[Len(vex_ports)].port_type = "System"
         THEN "User"
         ELSE "System"

\* mod.rs 24-76: the loop over the listed ports; a port is named by its
\* place in the list
RECURSIVE FindGenericPortsFrom(_, _, _)
FindGenericPortsFrom(listed, i, vex_ports) ==
    IF i > Len(listed) THEN vex_ports
    ELSE FindGenericPortsFrom(listed, i + 1,
            IF IsSkipped(listed[i]) THEN vex_ports
            ELSE Append(vex_ports,
                        [port_name |-> i,
                         port_type |-> PortTypeOf(listed[i], vex_ports)]))

\* mod.rs 16-79
FindGenericPorts(listed) == FindGenericPortsFrom(listed, 1, <<>>)

\* a device pushed without its user port
VexDevice_NoUserPort(system_port, user_port, device_type) ==
    [system_port |-> system_port, user_port |-> None,
     device_type |-> device_type]

\* mod.rs 100-139: the VexDevice values pushed
VexDevice(system_port, user_port, device_type) ==
    [system_port |-> system_port, user_port |-> user_port,
     device_type |-> device_type]

\* mod.rs 97, 101, 123: port_iter.peek() is a port of this type; the
\* iterator has yielded the first n ports
PeekIs(ports, n, type) == n < Len(ports) /\ ports[n + 1].port_type = type

DevUnchanged ==
    UNCHANGED <<cmd, log, transfer_response, max_chunk_size, progress, program>>

\* mod.rs 85: let ports = find_generic_ports()?; available_ports() may fail
FindPorts ==
    /\ pc = "ports"
    /\ \/ /\ chunks' = FindGenericPorts(cmd.listed)
          /\ pc' = "devices"
          /\ UNCHANGED result
       \/ /\ Return(Err(Failure("SerialportError")))
          /\ UNCHANGED chunks
    /\ UNCHANGED <<offset, data>>
    /\ DevUnchanged

\* mod.rs 94-136: one round of while let Some(current_port) = port_iter.next()
FindDevicesNext ==
    /\ pc = "devices"
    /\ offset < Len(chunks)
    /\ LET current_port == chunks[offset + 1]
           n == offset + 1
       IN  IF current_port.port_type = "System"
           THEN IF PeekIs(chunks, n, "User")
                THEN /\ data' = Append(data, VexDevice(current_port.port_name,
                                          Some(chunks[n + 1].port_name), "Brain"))
                     /\ offset' = n + 1
                ELSE /\ data' = Append(data, VexDevice(current_port.port_name,
                                                       None, "Unknown"))
                     /\ offset' = n
           ELSE IF current_port.port_type = "Controller"
           THEN /\ data' = Append(data, VexDevice(current_port.port_name,
                                                  None, "Controller"))
                /\ offset' = n
           ELSE IF PeekIs(chunks, n, "System")
                THEN /\ data' = Append(data, VexDevice(chunks[n + 1].port_name,
                                          Some(current_port.port_name), "Brain"))
                     /\ offset' = n + 1
                ELSE /\ data' = data
                     /\ offset' = n
    /\ UNCHANGED <<pc, chunks, result>>
    /\ DevUnchanged

\* mod.rs 94, 140: the iterator is exhausted, Ok(vex_devices)
FindDevicesReturn ==
    /\ pc = "devices"
    /\ offset = Len(chunks)
    /\ Return(Ok(data))
    /\ UNCHANGED <<offset, chunks, data>>
    /\ DevUnchanged

InitDev ==
    /\ cmd \in { [kind |-> "find_generic_devices", listed |-> l] :
                   l \in PortLists(MaxPorts) }
    /\ pc = "ports"
    /\ log = <<>>
    /\ transfer_response = None
    /\ max_chunk_size = 0
    /\ offset = 0
    /\ chunks = <<>>
    /\ data = <<>>
    /\ progress = <<>>
    /\ result = None
    /\ program = None

NextDev ==
    \/ FindPorts
    \/ FindDevicesNext
    \/ FindDevicesReturn

SpecDev == InitDev /\ [][NextDev]_vars

---------------------------------------------------------------------------
(* VarU16: new, encode, decode, check_wide                                 *)

\* varint.rs 13, 28: u16::MAX >> 1
U16_MAX_HALF == 32767

\* varint.rs 23, 32: u8::MAX >> 1
U8_MAX_HALF == 127

\* a byte is below this
U8 == 256

\* varint.rs 22-24
CheckWide(first) == first > U8_MAX_HALF

\* new takes every value
VarU16NewPanics_Never(val) == FALSE

\* varint.rs 13-15: new panics
VarU16NewPanics(val) == val > U16_MAX_HALF

\* the low byte goes first
WideBytes_LowFirst(v) ==
    <<v % U8, IF (v \div U8) % U8 > U8_MAX_HALF
              THEN (v \div U8) % U8
              ELSE ((v \div U8) % U8) + U8_MAX_HALF + 1>>

\* varint.rs 33-35: first = (self.0 >> 8) as u8 | 0x80, last = self.0 & 0xFF
WideBytes(v) ==
    <<IF (v \div U8) % U8 > U8_MAX_HALF
      THEN (v \div U8) % U8
      ELSE ((v \div U8) % U8) + U8_MAX_HALF + 1,
      v % U8>>

\* varint.rs 27-40
VarU16Encode(v) ==
    IF v > U16_MAX_HALF THEN Err(Failure("VarShortTooLarge"))
    ELSE IF v > U8_MAX_HALF THEN Ok(WideBytes(v))
    ELSE Ok(<<v>>)

\* u8::decode(&mut data): the next byte of the iterator, or the error of an
\* iterator that has ended
U8Decode(bytes) ==
    IF bytes = <<>> THEN Err(Failure("UnexpectedEnd")) ELSE Ok(bytes[1])

\* the top bit of the first byte stays in the value
WideValue_Unmasked(first, last) == first * U8 + last

\* varint.rs 50-51: u16::from_be_bytes([first & u8::MAX >> 1, last])
WideValue(first, last) == (first % (U8_MAX_HALF + 1)) * U8 + last

\* varint.rs 43-55: the result, and what the iterator has left;
\* wide = first & (1 << 7) != 0
VarU16Decode(bytes) ==
    IF ~U8Decode(bytes).ok THEN [res |-> U8Decode(bytes), rest |-> bytes]
    ELSE IF (bytes[1] \div (U8_MAX_HALF + 1)) % 2 = 1
         THEN IF ~U8Decode(Tail(bytes)).ok
              THEN [res |-> U8Decode(Tail(bytes)), rest |-> Tail(bytes)]
              ELSE [res |-> Ok(WideValue(bytes[1], bytes[2])),
                    rest |-> Tail(Tail(bytes))]
         ELSE [res |-> Ok(bytes[1]), rest |-> Tail(bytes)]

\* what is done with a VarU16: new(val), then encode and decode of the bytes;
\* encode of a VarU16 that holds val without new having looked at it;
\* decode of no byte, of one byte and of two bytes.  And j2000_timestamp with
\* what SystemTime::now().duration_since(UNIX_EPOCH) gives: the error of a
\* clock before 1970, or the milliseconds in three 16-bit digits, lowest
\* first (1970, the epoch in seconds and in milliseconds, 2023, and around)
VarCalls(kind) ==
    IF kind = "VarU16::new"
    THEN { [kind |-> kind, val |-> v, input |-> <<>>, now |-> None] :
             v \in 0..(U16 - 1) }
    ELSE IF kind = "VarU16::encode"
    THEN { [kind |-> kind, val |-> v, input |-> <<>>, now |-> None] :
             v \in (U16_MAX_HALF + 1)..(U16 - 1) }
    ELSE IF kind = "VarU16::decode"
    THEN { [kind |-> kind, val |-> 0, input |-> <<>>, now |-> None] }
            \cup { [kind |-> kind, val |-> 0, input |-> <<a>>, now |-> None] :
                     a \in 0..(U8 - 1) }
            \cup { [kind |-> kind, val |-> 0, input |-> <<a, b>>, now |-> None] :
                     a \in 0..(U8 - 1), b \in 0..(U8 - 1) }
    ELSE { [kind |-> kind, val |-> 0, input |-> <<>>, now |-> t] :
             t \in { Err(Failure("SystemTimeError")) }
                      \cup { Ok(<<d0, d1, d2>>) :
                               d0 \in {0, 17279, 17280, 26624, 44031, 44032,
                                       44037, 65535},
                               d1 \in {0, 14445, 27343, 53221, 65535},
                               d2 \in {0, 220, 395} } }

\* varint.rs 12-17
VarNew ==
    /\ pc = "new"
    /\ pc' = IF VarU16NewPanics(cmd.val) THEN "panicked" ELSE "encode"
    /\ UNCHANGED <<cmd, log, transfer_response, max_chunk_size, offset,
                   progress, program, chunks, data, result>>

\* varint.rs 27-40: the bytes are kept, and handed to decode
VarEncode ==
    /\ pc = "encode"
    /\ IF VarU16Encode(cmd.val).ok
       THEN /\ data' = VarU16Encode(cmd.val).value
            /\ chunks' = VarU16Encode(cmd.val).value
            /\ pc' = "decode"
            /\ UNCHANGED result
       ELSE /\ Return(VarU16Encode(cmd.val))
            /\ UNCHANGED <<chunks, data>>
    /\ UNCHANGED <<cmd, log, transfer_response, max_chunk_size, offset,
                   progress, program>>

\* varint.rs 43-55
VarDecode ==
    /\ pc = "decode"
    /\ chunks' = VarU16Decode(chunks).rest
    /\ Return(VarU16Decode(chunks).res)
    /\ UNCHANGED <<cmd, log, transfer_response, max_chunk_size, offset,
                   progress, program, data>>

\* varint.rs 90-94: (a - b) as i32 on u128 values of three 16-bit digits,
\* lowest first: whether the subtraction underflows, and the low 32 bits
\* of the difference read as a signed number
SubAsI32(a, b) ==
    LET b0 == IF a[1] < b[1] THEN 1 ELSE 0
        b1 == IF a[2] < b[2] + b0 THEN 1 ELSE 0
        lo == (a[1] - b[1]) % U16
        hi == (a[2] - b[2] - b0) % U16
    IN  [underflow |-> a[3] < b[3] + b1,
         value |-> IF hi > U16_MAX_HALF THEN (hi - U16) * U16 + lo
                   ELSE hi * U16 + lo]

\* varint.rs 87-95: J2000_EPOCH is 946684800 = 14445 * 65536 + 17280.
\* expect() panics on the error of a clock before 1970; a subtraction that
\* underflows panics where overflow checks are compiled in and wraps where
\* they are not
J2000Timestamp ==
    /\ pc = "j2000_timestamp"
    /\ LET J2000_EPOCH == <<17280, 14445, 0>>
       IN  IF ~cmd.now.ok
           THEN pc' = "panicked" /\ UNCHANGED result
           ELSE IF SubAsI32(cmd.now.value, J2000_EPOCH).underflow
           THEN \/ pc' = "panicked" /\ UNCHANGED result
                \/ Return(Ok(SubAsI32(cmd.now.value, J2000_EPOCH).value))
           ELSE Return(Ok(SubAsI32(cmd.now.value, J2000_EPOCH).value))
    /\ UNCHANGED <<cmd, log, transfer_response, max_chunk_size, offset,
                   progress, program, chunks, data>>

InitVar ==
    /\ \/ cmd \in VarCalls("VarU16::new")
       \/ cmd \in VarCalls("VarU16::encode")
       \/ cmd \in VarCalls("VarU16::decode")
       \/ cmd \in VarCalls("j2000_timestamp")
    /\ pc = IF cmd.kind = "VarU16::new" THEN "new"
            ELSE IF cmd.kind = "VarU16::encode" THEN "encode"
            ELSE IF cmd.kind = "VarU16::decode" THEN "decode"
            ELSE "j2000_timestamp"
    /\ chunks = cmd.input
    /\ log = <<>>
    /\ transfer_response = None
    /\ max_chunk_size = 0
    /\ offset = 0
    /\ data = <<>>
    /\ progress = <<>>
    /\ result = None
    /\ program = None

NextVar ==
    \/ VarNew
    \/ VarEncode
    \/ VarDecode
    \/ J2000Timestamp

SpecVar == InitVar /\ [][NextVar]_vars

---------------------------------------------------------------------------
(* VexDevice: write_serial, write_serial_raw, execute_program_file, open,  *)
(* file_metadata_from_name, set_program_file_metadata, delete_file         *)

\* vexdevice.rs 198: max_size
MAX_SERIAL_SIZE == 224

\* vexdevice.rs 231, 262: [u8; 24]
FILE_NAME_SIZE == 24

\* a serial write is of up to this many full packets, and a byte
MaxPackets == 2

\* file names are of up to this many bytes
MaxName == 25

\* calls made on one device, one after the other
MaxCalls == 2

\* a read asks for up to this many bytes, a reply to a serial read carries up
\* to this many, and read_serial makes up to this many passes of its loop
MaxRead == 2

\* the calls on a device that has a user port, or has none: the reads of
\* serial data, or the other calls.  The data given to write_serial: nothing,
\* and around each multiple of the packet size.  The names: ASCII names of one
\* byte and of about the size of the field, and a name that is not ASCII
VexCalls(user_port, reads) ==
    LET NameBytes(n) == [i \in 1..n |-> 96 + i]
        FileNames ==
            { NameBytes(n) : n \in {1} \cup ((FILE_NAME_SIZE - 1)..MaxName) }
                \cup { <<200>> }
        SerialData ==
            { FileBytes(n) :
                n \in { k * MAX_SERIAL_SIZE + d : k \in 0..MaxPackets,
                                                  d \in {-1, 0, 1} } \cap Nat }
    IN  IF reads
        THEN { [kind |-> k, user_port |-> user_port, data |-> <<>>,
                file_name |-> <<>>, linked_name |-> FALSE, n_bytes |-> n] :
                 k \in {"read_serial", "read"}, n \in 0..MaxRead }
        ELSE { [kind |-> "write_serial", user_port |-> user_port, data |-> d,
                file_name |-> <<>>, linked_name |-> FALSE, n_bytes |-> 0] :
                 d \in SerialData }
                \cup { [kind |-> k, user_port |-> user_port, data |-> <<>>,
                        file_name |-> n, linked_name |-> FALSE, n_bytes |-> 0] :
                         k \in {"execute_program_file", "open",
                                "file_metadata_from_name",
                                "set_program_file_metadata", "delete_file"},
                         n \in FileNames }
                \cup { [kind |-> "open", user_port |-> user_port,
                        data |-> <<>>, file_name |-> NameBytes(1),
                        linked_name |-> TRUE, n_bytes |-> 0] }

\* file_name.as_ascii_str()?
AsAsciiStr(name) ==
    IF \A i \in 1..Len(name) : name[i] <= U8_MAX_HALF
    THEN Ok(name) ELSE Err(Failure("AsAsciiStrError"))

\* vexdevice.rs 231-237, 262-268, 418-424, 449-455, 510-516: the array of 24
\* zeros, and on it the bytes i of the name for which i + 1 > 24 is false
FileNameBytes(name) ==
    [i \in 1..FILE_NAME_SIZE |-> IF i <= Len(name) THEN name[i] ELSE 0]

\* the packet takes all that is left of the data
PacketSize_Rest(i, size) == size - i

\* vexdevice.rs 205-209: packet_size
PacketSize(i, size) ==
    IF i + MAX_SERIAL_SIZE > size THEN size - i ELSE MAX_SERIAL_SIZE

\* vexdevice.rs 249, 318, 433, 464, 521: the command of the request
VexDeviceCommand(kind) ==
    IF kind = "execute_program_file" THEN "ExecuteFile"
    ELSE IF kind = "open" THEN "OpenFile"
    ELSE IF kind = "file_metadata_from_name" THEN "GetMetadataByFilename"
    ELSE IF kind = "set_program_file_metadata" THEN "SetFileMetadata"
    ELSE "DeleteFile"

\* protocol.send_extended(command, payload): the packet on the system port
ExtendedPacket(command, payload, file_name) ==
    [dir |-> "send", type |-> command, payload |-> payload,
     file_name |-> file_name]

\* protocol.receive_extended(VexExtPacketChecks::ALL): a failed receive is
\* its error, a reply whose ACK byte is not 0x76 is an error
ReceiveExtended(o) ==
    IF RecvFailed(o) THEN Err(Failure(o.res))
    ELSE IF o.ack # ACK THEN Err(Nack(o.ack))
    ELSE Ok(<<>>)

\* vexdevice.rs 168-182
WriteSerial ==
    /\ pc = "call"
    /\ cmd.kind = "write_serial"
    /\ IF cmd.user_port
       THEN \E s \in SendOutcomes :
               IF s = "Ok"
               THEN /\ log' = Append(log, [dir |-> "write", type |-> "user_port",
                                            payload |-> cmd.data,
                                            file_name |-> <<>>])
                    /\ Return(Ok(Len(cmd.data)))
               ELSE /\ Return(Err(Failure(s)))
                    /\ UNCHANGED log
       ELSE /\ pc' = "write_serial_raw"
            /\ UNCHANGED <<log, result>>
    /\ UNCHANGED <<cmd, transfer_response, max_chunk_size, offset, chunks,
                   data, progress, program>>

\* vexdevice.rs 187-221: one round of the loop, i in offset; after the loop
\* write_serial_raw returns Ok(()) and write_serial Ok(len)
WriteSerialRaw ==
    /\ pc = "write_serial_raw"
    /\ IF offset < Len(cmd.data)
       THEN \E s \in SendOutcomes :
               IF s = "Ok"
               THEN /\ log' = Append(log,
                         ExtendedPacket("SerialReadWrite",
                             <<1, 0>> \o SubSeq(cmd.data, offset + 1,
                                 offset + PacketSize(offset, Len(cmd.data))),
                             <<>>))
                    /\ offset' = offset + MAX_SERIAL_SIZE
                    /\ UNCHANGED <<pc, result>>
               ELSE /\ Return(Err(Failure(s)))
                    /\ UNCHANGED <<log, offset>>
       ELSE /\ Return(Ok(Len(cmd.data)))
            /\ UNCHANGED <<log, offset>>
    /\ UNCHANGED <<cmd, transfer_response, max_chunk_size, chunks, data,
                   progress, program>>

\* vexdevice.rs 230-249, 261-318, 417-433, 448-464, 509-521: the name is
\* converted and copied into the field, and the request is sent
SendRequest ==
    /\ pc = "call"
    /\ cmd.kind \notin {"write_serial", "read_serial", "read"}
    /\ IF AsAsciiStr(cmd.file_name).ok
       THEN SendPacket(ExtendedPacket(VexDeviceCommand(cmd.kind), <<>>,
                                      FileNameBytes(cmd.file_name)),
                       "receive")
       ELSE Return(AsAsciiStr(cmd.file_name)) /\ UNCHANGED log
    /\ UNCHANGED <<cmd, transfer_response, max_chunk_size, offset, chunks,
                   data, progress, program>>

\* vexdevice.rs 252-254, 321-367, 436-441, 467-469, 524-529: the reply is
\* received, by set_program_file_metadata without a ? (vexdevice.rs 467).
\* open goes on to SetLinkedFilename for a linked name;
\* delete_file calls file_transfer_close, whose borrow_mut() finds the
\* protocol borrowed by delete_file (vexdevice.rs 520, 527, 375) and panics
ReceiveReply ==
    /\ pc \in {"receive", "receive_linked"}
    /\ \E o \in { RecvError("Reply", e) : e \in RecvErrors }
                   \cup { Reply("Reply", a, None) : a \in Acks } :
          LET l == Append(log, o)
              r == IF cmd.kind = "set_program_file_metadata"
                   THEN Ok(<<>>) ELSE ReceiveExtended(o)
          IN  IF ~r.ok
              THEN Return(r) /\ log' = l
              ELSE IF cmd.kind = "delete_file"
              THEN pc' = "panicked" /\ log' = l /\ UNCHANGED result
              ELSE IF cmd.kind = "open" /\ cmd.linked_name /\ pc = "receive"
              THEN SendPacketFrom(l, ExtendedPacket("SetLinkedFilename", <<>>,
                                                    <<>>),
                                  "receive_linked")
              ELSE Return(Ok(<<>>)) /\ log' = l
    /\ UNCHANGED <<cmd, transfer_response, max_chunk_size, offset, chunks,
                   data, progress, program>>

\* vexdevice.rs 105-135: one pass of the loop of read_serial(n_bytes), and
\* what follows the loop when the pass ends it.  chunks holds the bytes the
\* port has delivered, data is serial_buffer, progress holds the bytes handed
\* to the caller, offset counts the passes.  On the user port w.read() into
\* buf = [0] delivers one byte or none, its count is not looked at, and buf is
\* put into the buffer (110-114); without a user port read_serial_raw asks
\* for up to 64 bytes and the payload of the reply is put into the buffer
\* (116-117, 140-163).  Read::read calls read_serial(0) and puts what it
\* returns back into the buffer (539-545)
ReadSerial ==
    /\ \/ pc = "call" /\ cmd.kind = "read_serial"
       \/ pc = "read_serial"
    /\ offset < MaxRead
    /\ LET n == IF cmd.kind = "read" THEN 0 ELSE cmd.n_bytes
           Pass(l, delivered, buf) ==
               /\ log' = l
               /\ chunks' = chunks \o delivered
               /\ offset' = offset + 1
               /\ IF Len(data \o buf) >= n \/ n = 0
                  THEN IF cmd.kind = "read"
                       THEN /\ data' = data \o buf
                            /\ pc' = "read"
                            /\ UNCHANGED <<progress, result>>
                       ELSE IF n = 0
                       THEN /\ data' = <<>>
                            /\ progress' = progress \o data \o buf
                            /\ Return(Ok(data \o buf))
                       ELSE /\ data' = SubSeq(data \o buf, n + 1,
                                              Len(data \o buf))
                            /\ progress' = progress \o SubSeq(data \o buf, 1, n)
                            /\ Return(Ok(SubSeq(data \o buf, 1, n)))
                  ELSE /\ data' = data \o buf
                       /\ pc' = "read_serial"
                       /\ UNCHANGED <<progress, result>>
           Fail(l, e) ==
               /\ log' = l
               /\ Return(Err(e))
               /\ UNCHANGED <<chunks, offset, data, progress>>
           UserRead(bytes) ==
               [dir |-> "read", type |-> "user_port", payload |-> bytes,
                file_name |-> <<>>]
           Request == ExtendedPacket("SerialReadWrite",
                                     <<ChannelByte("UPLOAD"), 64>>, <<>>)
       IN  IF cmd.user_port
           THEN \/ Pass(Append(log, UserRead(DeviceBytes(Len(chunks), 1))),
                        DeviceBytes(Len(chunks), 1), DeviceBytes(Len(chunks), 1))
                \/ Pass(Append(log, UserRead(<<>>)), <<>>, <<0>>)
                \/ Fail(log, Failure("IoError"))
           ELSE \/ Fail(log, Failure("IoError"))
                \/ \E o \in { RecvError("Reply", e) : e \in RecvErrors }
                               \cup { Reply("Reply", a, None) : a \in Acks \ {ACK} }
                               \cup { Reply("Reply", ACK,
                                            Some(DeviceBytes(Len(chunks), k))) :
                                        k \in 0..MaxRead } :
                      IF ReceiveExtended(o).ok
                      THEN Pass(Append(Append(log, Request), o),
                                o.payload[1], o.payload[1])
                      ELSE Fail(Append(Append(log, Request), o),
                                ReceiveExtended(o).err)
    /\ UNCHANGED <<cmd, transfer_response, max_chunk_size, program>>

\* vexdevice.rs 536-562: Read::read(buf), n_bytes is buf.len(); pc is "read"
\* after read_serial(0) has returned and its data is back in the buffer
Read ==
    /\ cmd.kind = "read"
    /\ pc \in {"call", "read"}
    /\ IF pc = "call" /\ Len(data) < cmd.n_bytes
       THEN /\ pc' = "read_serial"
            /\ UNCHANGED <<data, progress, result>>
       ELSE LET len == Min(Len(data), cmd.n_bytes)
            IN  /\ data' = SubSeq(data, len + 1, Len(data))
                /\ progress' = progress \o SubSeq(data, 1, len)
                /\ Return(Ok(len))
    /\ UNCHANGED <<cmd, log, transfer_response, max_chunk_size, offset, chunks,
                   program>>

\* the next call on the device, after a call has returned: one with a short
\* name or with little data; after a read a read, of no bytes or of the most
VexCall ==
    /\ pc = "returned"
    /\ Cardinality({ i \in 1..Len(log) : log[i].dir = "exec" }) < MaxCalls
    /\ \E c \in { d \in VexCalls(cmd.user_port,
                                  cmd.kind \in {"read_serial", "read"}) :
                    /\ Len(d.file_name) <= 1
                    /\ Len(d.data) <= 1
                    /\ d.n_bytes \in {0, MaxRead} } :
          /\ cmd' = c
          /\ log' = Append(log, ExecuteCommand(c))
    /\ pc' = "call"
    /\ result' = None
    /\ offset' = 0
    /\ UNCHANGED <<transfer_response, max_chunk_size, chunks, data, progress,
                   program>>

\* vexdevice.rs 37-47: a device with or without a user port, and a first call
InitVex ==
    /\ \E u \in BOOLEAN : \E r \in BOOLEAN : cmd \in VexCalls(u, r)
    /\ pc = "call"
    /\ log = <<ExecuteCommand(cmd)>>
    /\ transfer_response = None
    /\ max_chunk_size = 0
    /\ offset = 0
    /\ chunks = <<>>
    /\ data = <<>>
    /\ progress = <<>>
    /\ result = None
    /\ program = None

NextVex ==
    \/ WriteSerial
    \/ WriteSerialRaw
    \/ SendRequest
    \/ ReceiveReply
    \/ ReadSerial
    \/ Read
    \/ VexCall

SpecVex == InitVex /\ [][NextVex]_vars

---------------------------------------------------------------------------
(* What the log holds *)

IsSent(e, type) == e.dir = "send" /\ e.type = type

IsReply(e, type) == e.dir = "recv" /\ e.type = type /\ e.res = "Reply"

IsSend(e) == e.dir = "send"

\* the packets sent, in order
SentLog == SelectSeq(log, IsSend)

IsWrite(e) == IsSent(e, "WriteFile")

\* the WriteFile packets sent, in order
Writes == SelectSeq(log, IsWrite)

IsUpload == cmd.kind = "UploadFile"
IsDownload == cmd.kind = "DownloadFile"

Succeeded == pc = "returned" /\ result[1].ok

\* the window the accepted Init reply advertised
Window == transfer_response[1].window_size

---------------------------------------------------------------------------
(* C1 *)

\* the packets of a session between the Init and the Exit: all WriteFile
AllWrites(sent, from, to) == \A k \in from..to : sent[k].type = "WriteFile"

\* C1: a successful UploadFile sent InitFileTransfer first, then LinkFile
\* exactly when a linked file is specified, then only WriteFile packets, then
\* exactly one ExitFileTransfer, last, carrying the caller's after_upload; in
\* every state of an upload a WriteFile is in the log only after the accepted
\* Init reply, and no packet follows an ExitFileTransfer.
C1_UploadPacketOrder ==
    IsUpload =>
        /\ \A i \in 1..Len(log) :
              IsSent(log[i], "WriteFile") =>
                  \E j \in 1..(i - 1) :
                      IsReply(log[j], "InitFileTransferReply") /\ log[j].ack = ACK
        /\ \A i \in 1..Len(log) :
              IsSent(log[i], "ExitFileTransfer") =>
                  \A j \in (i + 1)..Len(log) : log[j].dir # "send"
        /\ Succeeded =>
              LET sent == SentLog
                  n == Len(sent)
              IN  /\ n >= 2
                  /\ sent[1].type = "InitFileTransfer"
                  /\ sent[n].type = "ExitFileTransfer"
                  /\ sent[n].action = cmd.after_upload
                  /\ IF cmd.linked_file # None
                     THEN /\ n >= 3
                          /\ sent[2].type = "LinkFile"
                          /\ sent[2].required_file = cmd.linked_file[1].filename
                          /\ AllWrites(sent, 3, n - 1)
                     ELSE AllWrites(sent, 2, n - 1)

\* C1 witness: an upload with a linked file and two chunks returned Ok
C1_Witness ==
    /\ IsUpload
    /\ Succeeded
    /\ cmd.linked_file # None
    /\ cmd.after_upload = "RunProgram"
    /\ NumSent("WriteFile") = 2

---------------------------------------------------------------------------
(* C2 *)

CeilDiv(a, b) == (a + b - 1) \div b

RECURSIVE Concat(_)
Concat(ws) == IF ws = <<>> THEN <<>> ELSE Head(ws).chunk_data \o Concat(Tail(ws))

\* C2: the k-th WriteFile of an upload (k from 0) carries
\* data[k*chunk_size .. min((k+1)*chunk_size, len)] at address
\* load_addr + k*chunk_size; once the loop is over the chunk payloads
\* concatenated are the data and ceil(len / chunk_size) packets were sent.
C2_ChunksPartitionData ==
    (IsUpload /\ pc \in {"loop", "write_wait", "exit_wait", "returned"}) =>
        LET ws == Writes
            len == Len(cmd.data)
        IN  /\ \A k \in 1..Len(ws) :
                  /\ ws[k].chunk_data =
                        SubSeq(cmd.data, (k - 1) * max_chunk_size + 1,
                               Min(k * max_chunk_size, len))
                  /\ ws[k].address = cmd.load_addr + (k - 1) * max_chunk_size
            /\ (pc = "exit_wait" \/ Succeeded) =>
                  /\ Len(ws) = CeilDiv(len, max_chunk_size)
                  /\ Concat(ws) = cmd.data

\* C2 witness: 9 bytes went out in chunks of 8 and 1 (window_size 6)
C2_Witness ==
    /\ IsUpload
    /\ Succeeded
    /\ Len(cmd.data) = 9
    /\ Window = 6
    /\ Len(Writes) = 2
    /\ Len(Writes[2].chunk_data) = 1
    /\ Writes[2].address = cmd.load_addr + 8

---------------------------------------------------------------------------
(* C3 *)

\* C3: every WriteFile chunk length is a multiple of 4, except possibly the
\* final chunk, the one that ends the data, whose length is
\* len mod chunk_size.
C3_ChunkAlignment ==
    IsUpload =>
        LET ws == Writes
            len == Len(cmd.data)
        IN  \A k \in 1..Len(ws) :
                \/ Len(ws[k].chunk_data) % 4 = 0
                \/ /\ k = Len(ws)
                   /\ ws[k].address - cmd.load_addr + Len(ws[k].chunk_data) = len
                   /\ Len(ws[k].chunk_data) = len % max_chunk_size

\* C3 witness: a full chunk of 8 was followed by a final chunk of 1
C3_Witness ==
    /\ IsUpload
    /\ Len(Writes) = 2
    /\ Len(Writes[1].chunk_data) = 8
    /\ Len(Writes[2].chunk_data) = 1

---------------------------------------------------------------------------
(* C4 *)

\* C4 as claimed: no WriteFile payload is longer than the window_size of the
\* Init reply and no ReadFile asks for more than window_size bytes.
C4_ChunkWithinWindow ==
    \A i \in 1..Len(log) :
        /\ IsSent(log[i], "WriteFile") => Len(log[i].chunk_data) <= Window
        /\ IsSent(log[i], "ReadFile") => log[i].size <= Window

\* window_size, or the 4096 that stands in for a window_size of 0
WindowOrDefault(w) == IF w = 0 THEN USER_PROGRAM_CHUNK_SIZE ELSE w

\* C4 amended: a ReadFile asks for at most window_size bytes and a WriteFile
\* payload is shorter than window_size + 4 (window_size rounded up to a
\* multiple of 4), where a window_size of 0 counts as 4096; neither is ever
\* more than 4096.
C4_ChunkWithinAlignedWindow ==
    \A i \in 1..Len(log) :
        /\ IsSent(log[i], "WriteFile") =>
              /\ Len(log[i].chunk_data) < WindowOrDefault(Window) + 4
              /\ Len(log[i].chunk_data) <= USER_PROGRAM_CHUNK_SIZE
        /\ IsSent(log[i], "ReadFile") =>
              /\ log[i].size <= WindowOrDefault(Window)
              /\ log[i].size <= USER_PROGRAM_CHUNK_SIZE

\* C4 witness: a WriteFile of 8 bytes was sent under a window_size of 6
C4_Witness ==
    /\ IsUpload
    /\ pc = "write_wait"
    /\ Window = 6
    /\ Len(Writes[1].chunk_data) = 8

---------------------------------------------------------------------------
(* C5 *)

\* C5: the upload chunk size is 4096 when window_size is 0 or above 4096 and
\* otherwise window_size rounded up to the next multiple of 4; it is a
\* multiple of 4 in 4..4096, and the u16 sum that rounds up stays below 2^16.
C5_UploadChunkSize ==
    (IsUpload /\ pc = "loop") =>
        /\ max_chunk_size =
              IF Window = 0 \/ Window > 4096 THEN 4096
              ELSE ((Window + 3) \div 4) * 4
        /\ max_chunk_size % 4 = 0
        /\ max_chunk_size >= 4
        /\ max_chunk_size <= 4096
        /\ (Window > 0 /\ Window <= USER_PROGRAM_CHUNK_SIZE /\ Window % 4 # 0) =>
              AlignUp(Window) < U16

\* C5 witness: a window_size of 6 gave a chunk size of 8
C5_Witness ==
    /\ IsUpload
    /\ pc = "loop"
    /\ Window = 6
    /\ max_chunk_size = 8

---------------------------------------------------------------------------
(* C6 *)

\* C6: when the InitFileTransfer reply carries an ACK byte other than 0x76
\* the transfer returned Nack(code) and the Init is the only packet it sent.
C6_InitNackAborts ==
    \A i \in 1..Len(log) :
        (IsReply(log[i], "InitFileTransferReply") /\ log[i].ack # ACK) =>
            /\ pc = "returned"
            /\ result = Some(Err(Nack(log[i].ack)))
            /\ \A j \in 1..Len(log) :
                  log[j].dir = "send" => log[j].type = "InitFileTransfer"

\* C6 witness: an upload whose Init was answered 0xD2 returned Nack(0xD2)
C6_Witness ==
    /\ IsUpload
    /\ Len(log) = 2
    /\ IsReply(log[2], "InitFileTransferReply")
    /\ log[2].ack = NACK_CRC
    /\ result = Some(Err(Nack(NACK_CRC)))

---------------------------------------------------------------------------
(* C7 *)

\* C7: a reply with an ACK byte other than 0x76, to whichever request of the
\* session, is the last thing that happens in it: the operation returned
\* Nack(code) and sent nothing after it.
C7_AnyNackAborts ==
    \A i \in 1..Len(log) :
        (log[i].dir = "recv" /\ log[i].res = "Reply" /\ log[i].ack # ACK) =>
            /\ pc = "returned"
            /\ result = Some(Err(Nack(log[i].ack)))
            /\ \A j \in (i + 1)..Len(log) : log[j].dir # "send"

---------------------------------------------------------------------------
(* C8 *)

IsChunkTimeout(e) ==
    /\ e.dir = "recv"
    /\ e.type \in {"WriteFileReply", "ReadFileReply"}
    /\ e.res = "Timeout"

\* C8: a transfer that returned because the reply to a chunk request timed
\* out had sent that chunk request twice and seen it time out twice.
C8_ChunkTimeoutRetriedOnce ==
    (pc = "returned" /\ Len(log) >= 1 /\ IsChunkTimeout(log[Len(log)])) =>
        /\ Len(log) >= 4
        /\ IsChunkTimeout(log[Len(log) - 2])
        /\ log[Len(log) - 1] = log[Len(log) - 3]

---------------------------------------------------------------------------
(* C9 *)

\* C9: when the file CRC of the accepted Init reply differs from the CRC32
\* the host computed (and put into the Init packet), the upload failed and
\* sent no chunk.
C9_CrcMismatchIsFatal ==
    (/\ IsUpload
     /\ Len(log) >= 2
     /\ IsReply(log[2], "InitFileTransferReply")
     /\ log[2].ack = ACK
     /\ log[2].payload[1].file_crc # log[1].write_file_crc) =>
        /\ pc = "returned"
        /\ ~result[1].ok
        /\ NumSent("WriteFile") = 0

---------------------------------------------------------------------------
(* C10 *)

\* C10: a DownloadFile that returned its data had sent
\* ExitFileTransfer(DoNothing) after the last ReadFile reply and received
\* the acknowledgement.
C10_DownloadExits ==
    (IsDownload /\ Succeeded) =>
        /\ Len(log) >= 2
        /\ IsSent(log[Len(log) - 1], "ExitFileTransfer")
        /\ log[Len(log) - 1].action = "DoNothing"
        /\ IsReply(log[Len(log)], "ExitFileTransferReply")
        /\ log[Len(log)].ack = ACK

---------------------------------------------------------------------------
(* C11 *)

IsRead(e) == IsSent(e, "ReadFile")

\* the ReadFile packets sent, in order
Reads == SelectSeq(log, IsRead)

IsReadData(e) == IsReply(e, "ReadFileReply") /\ e.ack = ACK

\* the ReadFile replies that carried bytes, in order
ReadReplies == SelectSeq(log, IsReadData)

\* the bytes of the first n replies, in order
RECURSIVE Received(_, _)
Received(rs, n) == IF n = 0 THEN <<>> ELSE Received(rs, n - 1) \o rs[n].payload[1]

\* the file size the accepted Init reply announced
FileSize == transfer_response[1].file_size

\* C11 as claimed: the k-th ReadFile of a download (k from 0) goes to address
\* load_addr + k*chunk_size and asks for chunk_size bytes.
C11_ReadOffsetsAreMultiples ==
    IsDownload =>
        \A k \in 1..Len(Reads) :
            /\ Reads[k].address = cmd.load_addr + (k - 1) * max_chunk_size
            /\ Reads[k].size = max_chunk_size

\* C11 amended: every ReadFile of a download asks for chunk_size bytes at
\* address load_addr + (the number of bytes the earlier replies carried); the
\* output is the bytes of the replies in order; after a reply the loop goes
\* on exactly while fewer than file_size bytes were received, and the result
\* is the concatenation of the replies.
C11_ReadOffsetsAreReceivedBytes ==
    (IsDownload /\ pc \in {"loop", "read_wait", "returned"}
                /\ transfer_response # None /\ max_chunk_size > 0) =>
        LET rs == ReadReplies
            got == Received(rs, Len(rs))
        IN  /\ \A k \in 1..Len(Reads) :
                  /\ Reads[k].address = cmd.load_addr + Len(Received(rs, k - 1))
                  /\ Reads[k].size = max_chunk_size
            /\ data = got
            /\ offset = Len(got)
            /\ (pc = "loop" /\ Len(rs) > 0) => Len(got) < FileSize
            /\ pc = "read_wait" => Len(Reads) = Len(rs) + 1
            /\ Succeeded =>
                  /\ Len(rs) >= 1
                  /\ Len(Reads) = Len(rs)
                  /\ Len(got) >= FileSize
                  /\ Len(rs) > 1 => Len(Received(rs, Len(rs) - 1)) < FileSize
                  /\ result[1].value = got

\* C11 witness: with a chunk size of 4 the replies carried 4, 1 and 4 bytes
\* of a 9-byte file, so the third ReadFile went to load_addr + 5
C11_Witness ==
    /\ IsDownload
    /\ Succeeded
    /\ max_chunk_size = 4
    /\ FileSize = 9
    /\ Len(Reads) = 3
    /\ Reads[2].address = cmd.load_addr + 4
    /\ Reads[3].address = cmd.load_addr + 5
    /\ Len(result[1].value) = 9

---------------------------------------------------------------------------
(* C12 *)

Clamp(x, lo, hi) == IF x < lo THEN lo ELSE IF x > hi THEN hi ELSE x

\* C12: the download chunk size is window_size clamped to 1..4096, and 4096
\* when window_size is 0; every ReadFile asks for exactly that many bytes,
\* a number in 1..4096.
C12_DownloadChunkSize ==
    IsDownload =>
        LET expected == IF Window = 0 THEN 4096 ELSE Clamp(Window, 1, 4096)
        IN  /\ pc \in {"loop", "read_wait"} => max_chunk_size = expected
            /\ \A i \in 1..Len(log) :
                  IsSent(log[i], "ReadFile") =>
                      /\ log[i].size = expected
                      /\ log[i].size >= 1
                      /\ log[i].size <= 4096

\* C12 witness: under a window_size of 5000 a ReadFile asked for 4096 bytes
C12_Witness ==
    /\ IsDownload
    /\ pc = "read_wait"
    /\ Window = 5000
    /\ Len(Reads) = 1
    /\ Reads[1].size = 4096

---------------------------------------------------------------------------
(* C13 *)

IsCall(e) == e.dir = "call"

\* the calls of the progress callback, in order
Calls == SelectSeq(log, IsCall)

\* the number of bytes in the WriteFile packets among the first j events
WrittenBefore(j) == Len(Concat(SelectSeq(SubSeq(log, 1, j), IsWrite)))

---------------------------------------------------------------------------
(* What the log of an UploadProgram holds *)

IsExec(e) == e.dir = "exec"

\* the UploadFile commands execute_command was called with, in order
Sessions == SelectSeq(log, IsExec)

\* the position of the execute_command call that event i belongs to
SessionOf(i) ==
    CHOOSE j \in 1..i : IsExec(log[j]) /\ \A k \in (j + 1)..i : ~IsExec(log[k])

\* which of the three uploads a command is
SessionKind(c) ==
    IF c.filetype = "ini" THEN "ini"
    ELSE IF c.load_addr = COLD_START THEN "cold" ELSE "hot"

Program == program[1]

ProgramReturned == Program.step = "returned"

ProgramSucceeded == ProgramReturned /\ Program.result[1].ok

---------------------------------------------------------------------------
(* C14 *)

\* the base name that counts the slots from 1
BaseFileName_OneBased(slot) == "slot" \o ToString(slot + 1)

\* C14: every file name UploadProgram sends is derived from the base name
\* "slot{slot+1}": the Init packets name {base}.ini or {base}.bin and the
\* LinkFile packet names {base}_lib.bin.
C14_NamesCountSlotsFromOne ==
    LET base == BaseFileName_OneBased(Program.slot)
    IN  \A i \in 1..Len(log) :
            /\ IsSent(log[i], "InitFileTransfer") =>
                  log[i].file_name \in {base \o ".ini", base \o ".bin"}
            /\ IsSent(log[i], "LinkFile") =>
                  log[i].required_file = base \o "_lib.bin"

---------------------------------------------------------------------------
(* C15 *)

\* the uploads of a program, in the order they are to run
ExpectedSessions(d) ==
    <<"ini">> \o (IF HasCold(d) THEN <<"cold">> ELSE <<>>)
              \o (IF HasHot(d) THEN <<"hot">> ELSE <<>>)

---------------------------------------------------------------------------
(* C16 *)

\* C16: the ExitFileTransfer of the INI session carries DoNothing, that of
\* the cold session DoNothing when there is a hot image too and the
\* caller's after_upload otherwise, that of the hot session the caller's
\* after_upload.
C16_ExitActions ==
    \A i \in 1..Len(log) :
        IsSent(log[i], "ExitFileTransfer") =>
            LET kind == SessionKind(log[SessionOf(i)].command)
            IN  log[i].action =
                    IF kind = "ini" THEN "DoNothing"
                    ELSE IF kind = "cold" /\ HasHot(Program.data) THEN "DoNothing"
                    ELSE Program.after_upload

---------------------------------------------------------------------------
(* C17 *)

\* C17: a session is started only after the upload before it ran to its
\* end, and when execute is over after an upload failed, it has returned
\* the failure of that upload as its Err.
C17_FailureIsReturned ==
    /\ \A i \in 2..Len(log) :
          IsExec(log[i]) => IsReply(log[i - 1], "ExitFileTransferReply")
    /\ (/\ Program.step \in {"returned", "panicked"}
        /\ pc = "returned"
        /\ ~result[1].ok) =>
          /\ ProgramReturned
          /\ Program.result = result

---------------------------------------------------------------------------
(* What the log of a with_channel holds *)

IsWork(e) == e.dir = "call" /\ e.type = "work"

\* the calls of f, in order
WorkCalls == SelectSeq(log, IsWork)

\* a send or a receive of the device layer failed
DeviceFailed ==
    \/ \E i \in 1..Len(log) : log[i].dir = "recv" /\ log[i].res # "Reply"
    \/ result = Some(Err(Failure("IoError")))

\* SwitchChannel(channel) was sent at position i and acknowledged
SwitchedAt(i, channel) ==
    /\ i < Len(log)
    /\ IsSent(log[i], "SwitchChannel")
    /\ log[i].channel = ChannelByte(channel)
    /\ IsReply(log[i + 1], "SwitchChannelReply")
    /\ log[i + 1].ack = ACK

---------------------------------------------------------------------------
(* C18 *)

\* C18: on a controller f is called only after SwitchChannel(ch) was sent
\* and acknowledged, and when with_channel has returned after f was called,
\* without a failure of the device layer, SwitchChannel(Pit) was sent after
\* the call of f, whatever f returned.
C18_PitRestoredAfterWork ==
    \A i \in 1..Len(log) :
        IsWork(log[i]) =>
            /\ cmd.peer[1] = V5_CONTROLLER =>
                  \E j \in 1..(i - 1) : SwitchedAt(j, cmd.channel)
            /\ (/\ pc = "returned"
                /\ ~DeviceFailed
                /\ \E j \in 1..(i - 1) : SwitchedAt(j, cmd.channel)) =>
                  \E j \in (i + 1)..Len(log) :
                      /\ IsSent(log[j], "SwitchChannel")
                      /\ log[j].channel = ChannelByte("PIT")

---------------------------------------------------------------------------
(* C19 *)

\* C19: when the GetSystemVersion reply of the peer is classified as a
\* product that is not a controller, with_channel sends nothing but
\* GetSystemVersion queries, calls f exactly once after the first
\* classification, and, the queries being answered, returns what f returned.
C19_NoSwitchOnBrain ==
    (/\ VexProductTryFrom(cmd.peer).ok
     /\ VexProductTryFrom(cmd.peer).value[1] # "V5Controller") =>
        /\ \A i \in 1..Len(log) : IsSend(log[i]) => log[i].type = "GetSystemVersion"
        /\ Len(WorkCalls) <= 1
        /\ (\E i \in 1..Len(log) : IsReply(log[i], "GetSystemVersionReply")) =>
              (pc = "work" \/ Len(WorkCalls) = 1)
        /\ (pc = "returned" /\ ~DeviceFailed) =>
              /\ Len(WorkCalls) = 1
              /\ result = Some(IF WorkCalls[1].value = "Ok" THEN Ok(<<>>)
                               ELSE Err(Failure("WorkError")))
              /\ NumSent("GetSystemVersion") =
                    IF WorkCalls[1].value = "Ok" THEN 2 ELSE 1

\* C19 witness: on a brain with_channel(UPLOAD, f) returned Ok after f ran
\* between two GetSystemVersion queries
C19_Witness ==
    /\ cmd.kind = "with_channel"
    /\ cmd.peer[1] = V5_BRAIN
    /\ cmd.channel = "UPLOAD"
    /\ pc = "returned"
    /\ result = Some(Ok(<<>>))
    /\ Len(WorkCalls) = 1
    /\ NumSent("GetSystemVersion") = 2
    /\ NumSent("SwitchChannel") = 0

---------------------------------------------------------------------------
(* What find_generic_devices returned *)

\* the port sequence find_generic_devices works on
Ports == chunks

FoundDevices == pc = "returned" /\ result[1].ok

\* the devices that hold the port with this name
DevicesOf(name) ==
    { k \in 1..Len(result[1].value) :
        \/ result[1].value[k].system_port = name
        \/ result[1].value[k].user_port = Some(name) }

\* exactly one device holds the port with this name, and it is this one
YieldsOne(name, device) ==
    /\ Cardinality(DevicesOf(name)) = 1
    /\ \A k \in DevicesOf(name) : result[1].value[k] = device

---------------------------------------------------------------------------
(* C20 *)

\* C20: in the devices returned for a port sequence, a System port
\* immediately followed by a User port gives one Brain device holding both
\* ports, a System port not immediately followed by a User port gives one
\* Unknown device without user port, and every Controller port gives one
\* Controller device without user port.
C20_Classification ==
    FoundDevices =>
        \A i \in 1..Len(Ports) :
            /\ (Ports[i].port_type = "System" /\ PeekIs(Ports, i, "User")) =>
                  YieldsOne(Ports[i].port_name,
                            VexDevice(Ports[i].port_name,
                                      Some(Ports[i + 1].port_name), "Brain"))
            /\ (Ports[i].port_type = "System" /\ ~PeekIs(Ports, i, "User")) =>
                  YieldsOne(Ports[i].port_name,
                            VexDevice(Ports[i].port_name, None, "Unknown"))
            /\ Ports[i].port_type = "Controller" =>
                  YieldsOne(Ports[i].port_name,
                            VexDevice(Ports[i].port_name, None, "Controller"))

---------------------------------------------------------------------------
(* C21 *)

\* the port at place i is a User port that does not immediately follow a
\* System port
IsOrphanUser(ports, i) ==
    /\ ports[i].port_type = "User"
    /\ (i = 1 \/ ports[i - 1].port_type # "System")

\* C21: a User port that does not immediately follow a System port is in no
\* returned device, and the ports after it are paired as without it: a
\* System port immediately followed by a User port still gives the Brain of
\* these two ports.
C21_OrphanUserDiscarded ==
    FoundDevices =>
        \A i \in 1..Len(Ports) :
            /\ IsOrphanUser(Ports, i) => DevicesOf(Ports[i].port_name) = {}
            /\ (Ports[i].port_type = "System" /\ PeekIs(Ports, i, "User")) =>
                  YieldsOne(Ports[i].port_name,
                            VexDevice(Ports[i].port_name,
                                      Some(Ports[i + 1].port_name), "Brain"))

---------------------------------------------------------------------------
(* VarU16 *)

\* new(val), encode and decode have run and decode has returned
RoundTripped == cmd.kind = "VarU16::new" /\ pc = "returned"

\* the bytes decode took from its input
Consumed == Len(cmd.input) - Len(chunks)

\* C22: for every v in 0..32767, decoding the bytes produced by encoding
\* VarU16(v) yields v
C22_RoundTrip ==
    (cmd.kind = "VarU16::new" /\ cmd.val <= 32767) =>
        /\ pc # "panicked"
        /\ pc = "returned" => result = Some(Ok(cmd.val))

C22_Witness ==
    /\ RoundTripped
    /\ cmd.val = 3840
    /\ data = <<143, 0>>
    /\ result = Some(Ok(3840))

\* C23: a value 0..127 encodes as the single byte v, a value 128..32767 as the
\* two bytes 0x80 | (v >> 8) and v & 0xFF; decode and check_wide agree on the
\* width from the top bit of the first byte; decode consumes one byte when the
\* bit is clear and two when it is set
C23_WidthAndLayout ==
    /\ (cmd.kind = "VarU16::new" /\ pc \in {"decode", "returned"}) =>
          /\ cmd.val <= 127 => data = <<cmd.val>>
          /\ cmd.val >= 128 =>
                data = <<128 + (cmd.val \div 256), cmd.val % 256>>
          /\ cmd.val = 127 => data = <<127>>
          /\ cmd.val = 128 => data = <<128, 128>>
          /\ cmd.val = 32767 => data = <<255, 255>>
          /\ CheckWide(data[1]) <=> Len(data) = 2
          /\ pc = "returned" => chunks = <<>>
    /\ (cmd.kind = "VarU16::decode" /\ pc = "returned" /\ cmd.input # <<>>) =>
          /\ ~CheckWide(cmd.input[1]) =>
                /\ result = Some(Ok(cmd.input[1]))
                /\ Consumed = 1
          /\ (CheckWide(cmd.input[1]) /\ Len(cmd.input) >= 2) =>
                /\ result[1].ok
                /\ Consumed = 2
          /\ (CheckWide(cmd.input[1]) /\ Len(cmd.input) < 2) => ~result[1].ok

C23_Witness ==
    /\ RoundTripped
    /\ cmd.val = 128
    /\ data = <<128, 128>>
    /\ result = Some(Ok(128))

\* C24: new panics for a value above 32767; encode returns VarShortTooLarge
\* and no bytes for such a value; every value decode produces is in 0..32767;
\* decode fails with an unexpected-end error when the input is empty or ends
\* after a first byte with the top bit set
C24_NeverAbove32767 ==
    /\ (cmd.kind = "VarU16::new" /\ cmd.val > 32767) => pc \in {"new", "panicked"}
    /\ (cmd.kind = "VarU16::encode" /\ cmd.val > 32767) =>
          /\ pc \in {"encode", "returned"}
          /\ data = <<>>
          /\ pc = "returned" => result = Some(Err(Failure("VarShortTooLarge")))
    /\ (/\ cmd.kind \in {"VarU16::new", "VarU16::decode"}
        /\ pc = "returned"
        /\ result[1].ok) => result[1].value \in 0..32767
    /\ (/\ cmd.kind = "VarU16::decode"
        /\ pc = "returned"
        /\ \/ cmd.input = <<>>
           \/ Len(cmd.input) = 1 /\ cmd.input[1] >= 128) =>
          result = Some(Err(Failure("UnexpectedEnd")))

C24_Witness ==
    /\ cmd.kind = "VarU16::new"
    /\ cmd.val = 32768
    /\ pc = "panicked"

---------------------------------------------------------------------------
(* VexDevice *)

\* the events of the call that is running, or has just ended
CallLog == SubSeq(log, SessionOf(Len(log)) + 1, Len(log))

IsUserWrite(e) == e.dir = "write"

\* the data parts of the SerialReadWrite packets of ps, concatenated
RECURSIVE SerialConcat(_)
SerialConcat(ps) ==
    IF ps = <<>> THEN <<>>
    ELSE SubSeq(Head(ps).payload, 3, Len(Head(ps).payload))
            \o SerialConcat(Tail(ps))

WroteSerial == cmd.kind = "write_serial" /\ pc = "returned" /\ result[1].ok

\* C25: with a user port write_serial writes exactly the bytes of data to it
\* and sends nothing on the system port; without one it sends data as
\* SerialReadWrite packets of at most 224 data bytes each, whose data parts
\* in order are data, and no packet for empty data; it returns data.len()
C25_WriteSerialRouting ==
    cmd.kind = "write_serial" =>
        LET sent == SelectSeq(CallLog, IsSend)
            written == SelectSeq(CallLog, IsUserWrite)
        IN  /\ cmd.user_port =>
                  /\ sent = <<>>
                  /\ Len(written) <= 1
                  /\ \A k \in 1..Len(written) : written[k].payload = cmd.data
                  /\ WroteSerial => Len(written) = 1
            /\ ~cmd.user_port =>
                  /\ written = <<>>
                  /\ \A k \in 1..Len(sent) :
                        /\ sent[k].type = "SerialReadWrite"
                        /\ Len(sent[k].payload) - 2 <= 224
                  /\ WroteSerial => SerialConcat(sent) = cmd.data
                  /\ cmd.data = <<>> => sent = <<>>
            /\ WroteSerial => result[1].value = Len(cmd.data)

C25_Witness ==
    /\ WroteSerial
    /\ ~cmd.user_port
    /\ Len(cmd.data) = 449
    /\ Len(SelectSeq(CallLog, IsSend)) = 3
    /\ result = Some(Ok(449))

IsRecv(e) == e.dir = "recv"

\* C26: after a request is sent on the system port, its reply is received
\* before the next request is sent, also for a serial write that is split
\* into several packets
C26_OneRequestInFlight ==
    \A i \in 1..Len(log) : \A j \in (i + 1)..Len(log) :
        (IsSend(log[i]) /\ IsSend(log[j])) =>
            \E k \in (i + 1)..(j - 1) : IsRecv(log[k])

\* the request at i is followed by a reply with the ACK byte 0x76
Acknowledged(i) ==
    /\ i < Len(log)
    /\ IsRecv(log[i + 1])
    /\ log[i + 1].res = "Reply"
    /\ log[i + 1].ack = ACK

\* C27: once a file transfer was opened and accepted, no second one is opened
\* before an ExitFile of the first was acknowledged
C27_OneSessionOpen ==
    \A i \in 1..Len(log) : \A j \in (i + 1)..Len(log) :
        (/\ IsSent(log[i], "OpenFile")
         /\ Acknowledged(i)
         /\ IsSent(log[j], "OpenFile")) =>
            \E k \in (i + 1)..(j - 1) :
                IsSent(log[k], "ExitFile") /\ Acknowledged(k)

\* C28: when receiving the reply to SetFileMetadata fails (timeout, decode
\* error or an ACK byte that is not success), set_program_file_metadata
\* returns an error
C28_MetadataErrorSurfaced ==
    (/\ cmd.kind = "set_program_file_metadata"
     /\ pc = "returned"
     /\ IsRecv(log[Len(log)])
     /\ ~Acknowledged(Len(log) - 1)) => ~result[1].ok

\* C29: j2000_timestamp returns now_ms minus the J2000 epoch in milliseconds
\* (946684800000 = 220 * 2^32 + 27343 * 65536 + 44032), truncated modulo 2^32
\* to a signed 32-bit integer, and does not fail for a clock before the epoch
C29_J2000Timestamp ==
    cmd.kind = "j2000_timestamp" =>
        /\ pc # "panicked"
        /\ pc = "returned" =>
              result = Some(Ok(SubAsI32(cmd.now.value,
                                        <<44032, 27343, 220>>).value))

\* C30: a file name in a request is a field of 24 bytes whose last byte is 0,
\* and a name of more than 23 bytes is sent in no request
C30_FileNameField ==
    \A i \in 1..Len(log) :
        (IsSend(log[i]) /\ log[i].file_name # <<>>) =>
            /\ Len(log[i].file_name) = 24
            /\ log[i].file_name[24] = 0
            /\ Len(log[SessionOf(i)].command.file_name) <= 23

---------------------------------------------------------------------------
(* UploadFile::execute: failures *)

\* the receive at i failed, or it is an Init reply that rejects the transfer
IsFailure(e) ==
    /\ IsRecv(e)
    /\ \/ e.res # "Reply"
       \/ e.type = "InitFileTransferReply" /\ e.ack # ACK

\* the error that the failed receive e is returned as
ErrorOf(e) == IF e.res # "Reply" THEN Failure(e.res) ELSE Nack(e.ack)

UploadFailed == IsUpload /\ pc = "returned" /\ ~result[1].ok

\* C31: when a send or a receive inside UploadFile fails (I/O error, timeout,
\* decode error, rejected Init) execute returns that error at once and sends
\* no further packet: a failed receive is the last event of the log and its
\* error is the result, and a call that failed before its ExitFileTransfer
\* step has sent no ExitFileTransfer
C31_UploadFailureReturnsAtOnce ==
    IsUpload =>
        /\ \A i \in 1..Len(log) :
              IsFailure(log[i]) =>
                  /\ i = Len(log)
                  /\ pc = "returned"
                  /\ result = Some(Err(ErrorOf(log[i])))
        /\ UploadFailed =>
              /\ \/ result[1].err = Failure("IoError")
                 \/ /\ log # <<>>
                    /\ IsFailure(log[Len(log)])
              /\ result[1].err = Failure("IoError") =>
                    (log # <<>> => ~IsSend(log[Len(log)]))
              /\ \/ NumSent("ExitFileTransfer") = 0
                 \/ /\ IsSent(log[Len(log) - 1], "ExitFileTransfer")
                    /\ IsFailure(log[Len(log)])

C31_Witness ==
    /\ UploadFailed
    /\ NumSent("WriteFile") = 2
    /\ log[Len(log)].type = "WriteFileReply"
    /\ result = Some(Err(Failure("Timeout")))
    /\ NumSent("ExitFileTransfer") = 0

---------------------------------------------------------------------------
(* DownloadFile::execute: the read loop *)

\* C32: with every request answered by a success reply the read loop of
\* DownloadFile sends finitely many ReadFile requests and execute returns,
\* whatever the lengths of the reply chunks: every pass of the loop that does
\* not end it brings offset closer to file_size, so that no pass leaves the
\* loop where it was
C32_ReadLoopTerminates ==
    [][(pc = "read_wait" /\ pc' = "loop") => offset' > offset]_vars


\* the bytes handed to the caller, then the bytes still in the buffer, are the
\* bytes the port has delivered
SerialFifo == progress \o data = chunks

\* a call of read_serial or of Read::read returns Ok in this step
ReadReturns(kind) ==
    /\ cmd.kind = kind
    /\ pc # "returned"
    /\ pc' = "returned"
    /\ result'[1].ok

\* C33: over any sequence of read_serial and Read::read calls the bytes handed
\* to the caller are the bytes delivered by the port, in arrival order, none
\* inserted, dropped or duplicated; read_serial(n) with n > 0 returns exactly
\* n bytes and keeps the rest buffered, read_serial(0) returns the whole
\* buffer and leaves it empty, Read::read returns at most buf.len() bytes and
\* reports the number of bytes it delivered
C33_SerialBufferFifo ==
    [][/\ SerialFifo'
       /\ ReadReturns("read_serial") =>
            /\ progress' = progress \o result'[1].value
            /\ cmd.n_bytes > 0 => Len(result'[1].value) = cmd.n_bytes
            /\ cmd.n_bytes = 0 => data' = <<>>
       /\ ReadReturns("read") =>
            /\ result'[1].value <= cmd.n_bytes
            /\ Len(progress') = Len(progress) + result'[1].value]_vars

\* C34: delete_file sends DeleteFile, receives its reply, sends ExitFile,
\* receives its reply, in this order, and returns Ok when both replies are
\* valid; it never tries to borrow the protocol object again while its own
\* call chain holds the exclusive borrow
C34_DeleteFileSequence ==
    cmd.kind = "delete_file" =>
        /\ pc # "panicked"
        /\ Len(CallLog) <= 4
        /\ \A i \in 1..Len(CallLog) :
              /\ i = 1 => IsSent(CallLog[i], "DeleteFile")
              /\ i = 3 => IsSent(CallLog[i], "ExitFile")
              /\ i \in {2, 4} => IsRecv(CallLog[i])
        /\ (pc = "returned" /\ result[1].ok) =>
              /\ Len(CallLog) = 4
              /\ CallLog[2].res = "Reply" /\ CallLog[2].ack = ACK
              /\ CallLog[4].res = "Reply" /\ CallLog[4].ack = ACK
        /\ (/\ pc = "returned"
            /\ Len(CallLog) = 4
            /\ CallLog[2].res = "Reply" /\ CallLog[2].ack = ACK
            /\ CallLog[4].res = "Reply" /\ CallLog[4].ack = ACK) => result[1].ok

---------------------------------------------------------------------------
(* find_generic_devices: the list as a whole *)

\* the names of the ports of the k-th device returned
PortsOfDevice(k) ==
    {result[1].value[k].system_port}
        \cup (IF result[1].value[k].user_port = None THEN {}
              ELSE {result[1].value[k].user_port[1]})

\* the place in the port sequence of the first port of the k-th device
FirstPlace(k) ==
    CHOOSE i \in 1..Len(Ports) :
        /\ Ports[i].port_name \in PortsOfDevice(k)
        /\ \A j \in 1..(i - 1) : Ports[j].port_name \notin PortsOfDevice(k)

\* C35: for every port sequence the list returned by find_generic_devices
\* uses each port in at most one device, as system port or as user port, uses
\* every System and every Controller port in exactly one device, lists the
\* devices in the order of their first port, and gives a device a user port
\* exactly when its type is Brain
C35_DeviceList ==
    FoundDevices =>
        /\ \A i \in 1..Len(Ports) :
              /\ Cardinality(DevicesOf(Ports[i].port_name)) <= 1
              /\ Ports[i].port_type \in {"System", "Controller"} =>
                    Cardinality(DevicesOf(Ports[i].port_name)) = 1
        /\ \A k \in 1..Len(result[1].value) :
              /\ PortsOfDevice(k) \subseteq
                    { Ports[i].port_name : i \in 1..Len(Ports) }
              /\ result[1].value[k].user_port # Some(result[1].value[k].system_port)
              /\ \A l \in (k + 1)..Len(result[1].value) :
                    FirstPlace(k) < FirstPlace(l)
              /\ (result[1].value[k].user_port # None)
                    <=> (result[1].value[k].device_type = "Brain")

\* the ports are [User, System, Controller, User]: a Brain of the first two
\* ports, a Controller, and the last port in no device
C35_Witness ==
    /\ FoundDevices
    /\ Len(Ports) = 4
    /\ Ports[4].port_type = "User"
    /\ Len(result[1].value) = 2
    /\ result[1].value[1] = VexDevice(Ports[2].port_name,
                                      Some(Ports[1].port_name), "Brain")
    /\ result[1].value[2].device_type = "Controller"
    /\ DevicesOf(Ports[4].port_name) = {}

====
